---- MODULE Spec2Model ----
(***************************************************************************)
(* Model of the document-processing orchestrator of AWS_BDA:               *)
(*   process_documents.py : invoke_document_processing,                    *)
(*                          process_single_document,                       *)
(*                          process_documents_batch                        *)
(*   utils.py             : wait_for_job_completion,                       *)
(*                          extract_results_from_response                  *)
(* One worker of the ThreadPoolExecutor runs process_single_document for   *)
(* one document; the main thread collects the futures with as_completed.   *)
(* The remote service is an opaque collaborator: every call returns one of *)
(* the answers below, chosen nondeterministically, after some duration.    *)
(***************************************************************************)
EXTENDS Integers, Sequences, FiniteSets, TLC

(* ---------------------------- bounds ----------------------------------- *)
(* Documents in the list; timeout and poll_interval range over             *)
(* 1..MaxTimeout; a status query takes 0..MaxCallDur time units.           *)
MaxDocs == 2
MaxTimeout == 1
MaxCallDur == 1
(* Rows of a results list handed to export_results_to_csv; rows of a list  *)
(* whose summary is computed (rows of two shapes only).                    *)
MaxRows == 2
MaxSummaryRows == 10
(* Elements of a list-valued field of a record read back by build_csv.     *)
MaxListLen == 3
(* Artifacts listed under the output prefix that build_csv reads back.     *)
MaxArtifacts == 2
\* the poll interval and the timeout of the single poll loop
MaxPollInterval == 3
MaxPollTimeout == 5
\* the arguments of retry_with_backoff
MaxRetries == 4
MaxDelay == 3
\* the ensure_blueprint calls made against one service
MaxInvocations == 3
\* the documents main finds under the input prefix
MaxListed == 1

(* ---------------------------- inputs ----------------------------------- *)
bucket == "bucket"

NoValue == "<none>"

(* Python's None / absent key of a response dictionary. *)
Absent == "<absent>"

(* Answers of runtime_client.invoke_data_automation_async: a response with *)
(* an invocationArn, a botocore ClientError, any other exception.          *)
SubmitAnswers == {"ok", "ClientError", "Exception"}

(* A response of get_data_automation_status.  kind = "response" carries a  *)
(* dictionary; kind = "ClientError" / "Exception" is a call that raised.   *)
Response(st, err, out, uri) ==
  [kind |-> "response", status |-> st, error |-> err, output |-> out, s3Uri |-> uri]

Raised(k) ==
  [kind |-> k, status |-> Absent, error |-> Absent, output |-> Absent, s3Uri |-> Absent]

NoResponse == Raised(NoValue)

(* The answers a status query may get.  A status of Absent is a response   *)
(* without a 'status' key; output is the shape of response['output']: a    *)
(* mapping, or a string that is no JSON; s3Uri is                          *)
(* response['outputConfiguration']['s3Uri'].                               *)
QueryAnswers ==
  {Response(st, Absent, Absent, Absent) :
      st \in {"SUCCEEDED", "IN_PROGRESS", "PENDING", Absent}}
  \cup {Response("FAILED", err, Absent, Absent) : err \in {Absent, "E1"}}
  \cup {Response("SUCCESS", Absent, "mapping", uri) : uri \in {Absent, "s3://out"}}
  \cup {Response("SUCCESS", Absent, "bad_string", "s3://out")}
  \cup {Raised("ClientError"), Raised("Exception")}

VARIABLES
  documents,     \* the list of document keys given to process_documents_batch
  batch_size,    \* config['processing']['batch_size']
  poll_interval, \* config['processing']['poll_interval']
  timeout,       \* config['processing']['timeout']
  pc,            \* position of the worker of each document
  elapsed,       \* time.time() - start_time in the document's poll loop
  submitted,     \* answer of the document's submission call (NoValue: none yet)
  lastResp,      \* response of the current iteration of the poll loop
  future,        \* the document's Future: pending, a result, or an exception
  results,       \* the results list of process_documents_batch
  main_pc,       \* position of process_documents_batch
  include_metadata, \* argument of export_results_to_csv
  df,            \* the DataFrame export_results_to_csv writes with to_csv
  summary,       \* what export_results_to_csv logs as PROCESSING SUMMARY
  record,        \* one JSON object read by ResultAggregator / the 'output' mapping
  csv_row,       \* the dictionary build_csv hands to writer.writerow
  extracted,     \* the schema fields extract_results_from_response copies
  listing,       \* the artifacts under the output prefix, in listing order
  csv_file,      \* the file build_csv writes: header and rows
  build_pc,      \* position of build_csv
  job_pc,        \* position of JobRunner.start_job
  job_identifier, \* the key whose value start_job took as the job's identifier
  job_status,    \* status of the job in the last get_document_processing_job
  stop_answer,   \* answer of stop_document_processing_job to safe_stop
  stop_result,   \* how safe_stop ended
  component      \* the state of what runs beside the batch: one record, fields below

config == <<documents, batch_size, poll_interval, timeout>>

worker == <<pc, elapsed, submitted, lastResp, future>>

export == <<include_metadata, df, summary>>

aggregator == <<record, csv_row, extracted>>

readback == <<listing, csv_file, build_pc>>

jobrunner == <<job_pc, job_identifier, job_status, stop_answer, stop_result>>

vars == <<documents, batch_size, poll_interval, timeout, pc, elapsed,
          submitted, lastResp, future, results, main_pc,
          include_metadata, df, summary, record, csv_row, extracted,
          listing, csv_file, build_pc,
          job_pc, job_identifier, job_status, stop_answer, stop_result,
          component>>

Docs == 1..Len(documents)

(* ------------------------- pure helpers -------------------------------- *)

(* key.split('/')[-1] *)
DocumentName(key) == key[Len(key)]

(* f"s3://{bucket}/{key}" *)
S3Uri(key) == <<"s3:", bucket>> \o key

(* str(e) of the exceptions that occur; NoText is a missing error_message. *)
NoText == <<>>

ClientErrorText(where) == <<"ClientError", where>>

ExceptionText(where) == <<"Exception", where>>

(* str(e) of the exception a status query raised. *)
QueryErrorText(resp) == <<resp.kind, "status">>

TimeoutText(t) == <<"Job processing exceeded timeout of", t, "seconds">>

(* response.get('error', 'Unknown error') *)
ErrorOf(resp) == IF resp.error = Absent THEN "Unknown error" ELSE resp.error

JobFailedText(resp) == <<"Job failed:", ErrorOf(resp)>>

AttributeErrorText == <<"AttributeError", "'str' object has no attribute 'get'">>

NoRow ==
  [document |-> 0, s3_uri |-> <<>>, processing_status |-> NoValue,
   error_message |-> NoText, output_s3_uri |-> Absent, fields |-> Absent]

(* A concurrent.futures.Future: pending, finished with a result, or        *)
(* finished with an exception.                                             *)
PendingFuture == [state |-> "pending", row |-> NoRow, text |-> NoText]

FutureResult(row) == [state |-> "result", row |-> row, text |-> NoText]

FutureException(text) == [state |-> "exception", row |-> NoRow, text |-> text]

(* An error dictionary whose status names the kind of the failure.        *)
ErrorRowNamesKind(key, text) ==
  [document |-> DocumentName(key), s3_uri |-> S3Uri(key),
   processing_status |-> text[1], error_message |-> text,
   output_s3_uri |-> Absent, fields |-> Absent]

(* An error dictionary without the error_message entry. *)
ErrorRowWithoutMessage(key, text) ==
  [document |-> DocumentName(key), s3_uri |-> S3Uri(key),
   processing_status |-> "error", error_message |-> NoText,
   output_s3_uri |-> Absent, fields |-> Absent]

(* The error dictionary of process_single_document (lines 78-83, 106-111)  *)
(* and of process_documents_batch (lines 148-153).                         *)
ErrorRow(key, text) ==
  [document |-> DocumentName(key), s3_uri |-> S3Uri(key),
   processing_status |-> "error", error_message |-> text,
   output_s3_uri |-> Absent, fields |-> Absent]

(* The shapes of response['output']: a mapping, a list, None, and strings  *)
(* that hold the JSON text of a mapping, the JSON text of a list, or no    *)
(* JSON at all; Absent is a response without the key.                      *)
OutputStrings == {"mapping_string", "list_string", "bad_string"}

OutputShapes == {"mapping", "list", "null"} \cup OutputStrings

(* json.loads of an output string: the shape of the value, or the          *)
(* JSONDecodeError.                                                        *)
JsonLoads(text) ==
  CASE text = "mapping_string" -> "mapping"
    [] text = "list_string" -> "list"
    [] OTHER -> "JSONDecodeError"

(* Lines 171-175: a string is parsed; when it does not parse, the warning  *)
(* is logged and output_data stays the string.                             *)
OutputData(output) ==
  IF output \in OutputStrings
  THEN (IF JsonLoads(output) = "JSONDecodeError" THEN output ELSE JsonLoads(output))
  ELSE output

TypeName(data) ==
  CASE data = "list" -> "list"
    [] data = "null" -> "NoneType"
    [] OTHER -> "str"

(* str(e) of the AttributeError of output_data.get on line 181. *)
AttributeErrorOf(data) ==
  <<"AttributeError", "'" \o TypeName(data) \o "' object has no attribute 'get'">>

(* How a call ends: with a returned dictionary, or with an exception.      *)
Returned(row) == [raised |-> FALSE, row |-> row, text |-> NoText]

Raising(text) == [raised |-> TRUE, row |-> NoRow, text |-> text]

(* The try block of extract_results_from_response, lines 152-183. *)
TryExtract(resp, key) ==
  IF resp.output # Absent /\ OutputData(resp.output) # "mapping"
  THEN Raising(AttributeErrorOf(OutputData(resp.output)))
  ELSE Returned([document |-> key, s3_uri |-> <<>>,
                 processing_status |-> "success", error_message |-> NoText,
                 output_s3_uri |-> resp.s3Uri,
                 fields |-> IF resp.output = Absent THEN Absent ELSE "payload"])

(* An extraction without the except clause of line 185. *)
ExtractResultsFromResponseUnguarded(resp, key) == TryExtract(resp, key)

(* extract_results_from_response: the try block, and the except Exception  *)
(* clause of lines 185-191 that turns the exception into an error          *)
(* dictionary.                                                             *)
ExtractResultsFromResponse(resp, key) ==
  IF TryExtract(resp, key).raised
  THEN Returned([document |-> key, s3_uri |-> <<>>,
                 processing_status |-> "error",
                 error_message |-> TryExtract(resp, key).text,
                 output_s3_uri |-> Absent, fields |-> Absent])
  ELSE TryExtract(resp, key)

(* An extraction whose error dictionary never gets its s3_uri (line 99    *)
(* skipped on the error path).                                             *)
ExtractResultsLosesUri(resp, key) ==
  IF resp.output = "bad_string"
  THEN [document |-> DocumentName(key), s3_uri |-> <<>>,
        processing_status |-> "error", error_message |-> AttributeErrorText,
        output_s3_uri |-> Absent, fields |-> Absent]
  ELSE [document |-> DocumentName(key), s3_uri |-> S3Uri(key),
        processing_status |-> "success", error_message |-> NoText,
        output_s3_uri |-> resp.s3Uri,
        fields |-> IF resp.output = Absent THEN Absent ELSE "payload"]

(* extract_results_from_response followed by line 99 of                    *)
(* process_single_document, which sets s3_uri on whatever came back.       *)
ExtractResults(resp, key) ==
  [ExtractResultsFromResponse(resp, DocumentName(key)).row
     EXCEPT !.s3_uri = S3Uri(key)]

(* A timeout test that fires one time unit late. *)
TimedOutLate(e, limit) == e > limit + 1

(* elapsed > timeout *)
TimedOut(e, limit) == e > limit

(* A sleep during which the clock read by the loop stands still. *)
SleepStalls(interval) == 0

(* The time one time.sleep(poll_interval) lets pass. *)
SleepAdvance(interval) == interval

(* Documents a pool thread is working on. *)
Running == {d \in Docs : pc[d] \in {"invoke", "check", "query", "sleep"}}

Finished(d) == pc[d] \in {"done", "collected"}

(* ----------------------------- Init ------------------------------------ *)
(* A dictionary without keys. *)
NoDict == [k \in {} |-> ""]

(* Nothing was exported: no DataFrame, no summary. *)
NoTable == [columns |-> <<>>, rows |-> <<>>]

NoSummary == [total |-> 0, successful |-> 0, failed |-> 0, percents |-> <<>>]

ExportNotRun ==
  /\ include_metadata = FALSE
  /\ df = NoTable
  /\ summary = NoSummary

(* No artifact was read back and no output mapping was extracted. *)
AggregatorNotRun ==
  /\ record = NoDict
  /\ csv_row = NoDict
  /\ extracted = NoDict

(* build_csv was not called: no listing, no file. *)
NoFile == [header |-> <<>>, rows |-> <<>>]

ReadBackNotRun ==
  /\ listing = <<>>
  /\ csv_file = NoFile
  /\ build_pc = NoValue

(* No JobRunner method was called. *)
JobRunnerNotRun ==
  /\ job_pc = NoValue
  /\ job_identifier = NoValue
  /\ job_status = NoValue
  /\ stop_answer = NoValue
  /\ stop_result = NoValue

(* What a call of func gave, or what retry_with_backoff ended with: the    *)
(* result or the exception of the call made in iteration of, or None.      *)
CallOutcome(kind, of) == [kind |-> kind, of |-> of]

NoOutcome == CallOutcome(NoValue, 0)

(* The service has no blueprint of the name: get_blueprint raises the      *)
(* ClientError with code ResourceNotFoundException.                        *)
NotFound == [blueprint |-> [type |-> "ResourceNotFoundException", of |-> Absent]]

(* component while nothing runs beside the batch: no call of               *)
(* extract_results_from_response or retry_with_backoff is followed on its  *)
(* own, no entry point, no single poll loop, no BlueprintManager, and the  *)
(* run was not interrupted.                                                *)
IdleComponent ==
  [response        |-> NoResponse,  \* the response handed to extract_results_from_response
   document_key    |-> 0,           \* its document_key argument
   extract_end     |-> NoValue,     \* how that call ended: "returned" or "raised"
   extract_row     |-> NoRow,       \* the dictionary it returned
   max_retries     |-> 0,           \* argument of retry_with_backoff
   delay           |-> 0,           \* argument of retry_with_backoff
   attempt         |-> 0,           \* the loop variable of retry_with_backoff
   retry_pc        |-> NoValue,     \* position of retry_with_backoff
   calls           |-> 0,           \* the calls of func it has made
   sleeps          |-> <<>>,        \* the arguments of its time.sleep calls, in order
   retry_end       |-> NoOutcome,   \* what it returned or raised
   dry_run         |-> FALSE,       \* args.dry_run of process_documents.main
   exit_status     |-> NoValue,     \* what the entry point (main) returned
   blueprint_store |-> NotFound,    \* what the service holds under the blueprint's name
   payload         |-> NoValue,     \* the payload the last ensure_blueprint built
   invocations     |-> 0,           \* the ensure_blueprint calls made so far
   mutations       |-> <<>>,        \* the create and update calls of the last ensure_blueprint
   blueprint_end   |-> NoValue,     \* how the last ensure_blueprint ended
   loop_pc         |-> NoValue,     \* position of one wait_for_job_completion call
   loop_elapsed    |-> 0,           \* time.time() - start_time in that call
   loop_queries    |-> 0,           \* the status queries that call has issued
   known_handles   |-> {},          \* the documents whose job was in flight at the interrupt
   stop_requests   |-> {}]          \* the documents for whose job a stop request was sent

response == component.response

document_key == component.document_key

extract_end == component.extract_end

extract_row == component.extract_row

max_retries == component.max_retries

delay == component.delay

attempt == component.attempt

retry_pc == component.retry_pc

calls == component.calls

sleeps == component.sleeps

retry_end == component.retry_end

dry_run == component.dry_run

exit_status == component.exit_status

blueprint_store == component.blueprint_store

payload == component.payload

invocations == component.invocations

mutations == component.mutations

blueprint_end == component.blueprint_end

loop_pc == component.loop_pc

loop_elapsed == component.loop_elapsed

loop_queries == component.loop_queries

known_handles == component.known_handles

stop_requests == component.stop_requests

ComponentsNotRun == component = IdleComponent

(* process_documents_batch is not part of the run. *)
BatchNotRun ==
  /\ documents = <<>>
  /\ batch_size = 1
  /\ poll_interval = 1
  /\ timeout = 1
  /\ pc = <<>>
  /\ elapsed = <<>>
  /\ submitted = <<>>
  /\ lastResp = <<>>
  /\ future = <<>>
  /\ results = <<>>

Init ==
  /\ \E n \in 1..MaxDocs : documents = [i \in 1..n |-> <<"docs", i>>]
  /\ batch_size \in 1..MaxDocs
  /\ poll_interval \in 1..MaxTimeout
  /\ timeout \in 1..MaxTimeout
  /\ pc = [d \in Docs |-> "queued"]
  /\ elapsed = [d \in Docs |-> 0]
  /\ submitted = [d \in Docs |-> NoValue]
  /\ lastResp = [d \in Docs |-> NoResponse]
  /\ future = [d \in Docs |-> PendingFuture]
  /\ results = <<>>
  /\ main_pc = "collecting"
  /\ ExportNotRun
  /\ AggregatorNotRun
  /\ ReadBackNotRun
  /\ JobRunnerNotRun
  /\ ComponentsNotRun

(* --------------------------- the workers ------------------------------- *)

(* A pool that starts a thread for every work item. *)
WorkerAvailableUnbounded == TRUE

(* ThreadPoolExecutor(max_workers=batch_size): a work item leaves the      *)
(* queue only when one of the batch_size pool threads is idle.             *)
WorkerAvailable == Cardinality(Running) < batch_size

(* A worker without the except clause: the exception ends the future.     *)
WorkerLetsThrough(key, text) == FutureException(text)

(* The except clause at the boundary of process_single_document: the       *)
(* exception becomes the error dictionary, which is the future's result.   *)
WorkerCatch(key, text) == FutureResult(ErrorRow(key, text))

(* A submission whose ClientError is logged and then taken as submitted.   *)
InvocationStatusIgnoresError(ans) ==
  IF ans \in {"ok", "ClientError"} THEN "submitted" ELSE "raise"

(* What invoke_document_processing makes of the submission call's answer:  *)
(* a 'submitted' dictionary, an 'error' dictionary (ClientError, caught at *)
(* line 51), or an exception that leaves the function.                     *)
InvocationStatus(ans) ==
  IF ans = "ok" THEN "submitted"
  ELSE IF ans = "ClientError" THEN "error"
  ELSE "raise"

(* A poll loop that waits on FAILED as on a job in progress. *)
PollDecisionFailedWaits(resp) ==
  IF resp.kind = "ClientError" THEN "retry"
  ELSE IF resp.kind = "Exception" THEN "raise"
  ELSE IF resp.status = "SUCCESS" THEN "return"
  ELSE IF resp.status \in {"FAILED", "IN_PROGRESS", "PENDING"} THEN "wait"
  ELSE "unknown"

(* A poll loop without the except ClientError clause of line 144. *)
PollDecisionQueryErrorRaises(resp) ==
  IF resp.kind \in {"ClientError", "Exception"} THEN "raise"
  ELSE IF resp.status = "SUCCESS" THEN "return"
  ELSE IF resp.status = "FAILED" THEN "failed"
  ELSE IF resp.status \in {"IN_PROGRESS", "PENDING"} THEN "wait"
  ELSE "unknown"

(* A poll loop whose else branch gives up on a status it does not know.    *)
PollDecisionUnknownFails(resp) ==
  IF resp.kind = "ClientError" THEN "retry"
  ELSE IF resp.kind = "Exception" THEN "raise"
  ELSE IF resp.status = "SUCCESS" THEN "return"
  ELSE IF resp.status \in {"IN_PROGRESS", "PENDING"} THEN "wait"
  ELSE "failed"

(* The branch wait_for_job_completion takes on one answer of the status    *)
(* query (lines 126-146).                                                  *)
PollDecision(resp) ==
  IF resp.kind = "ClientError" THEN "retry"
  ELSE IF resp.kind = "Exception" THEN "raise"
  ELSE IF resp.status = "SUCCESS" THEN "return"
  ELSE IF resp.status = "FAILED" THEN "failed"
  ELSE IF resp.status \in {"IN_PROGRESS", "PENDING"} THEN "wait"
  ELSE "unknown"

(* A worker that starts to poll without having submitted the document.     *)
StartWorkerSkipsSubmission(d) ==
  /\ main_pc = "collecting"
  /\ pc[d] = "queued"
  /\ \A e \in Docs : e < d => pc[e] # "queued"
  /\ WorkerAvailable
  /\ pc' = [pc EXCEPT ![d] = "check"]
  /\ UNCHANGED <<config, export, aggregator, readback, jobrunner, component, elapsed, submitted, lastResp, future, results, main_pc>>

(* A pool that drops the queued work items once a document has failed.     *)
StartWorkerFailFast(d) ==
  /\ main_pc = "collecting"
  /\ pc[d] = "queued"
  /\ \A e \in Docs : e < d => pc[e] # "queued"
  /\ WorkerAvailable
  /\ pc' = [pc EXCEPT ![d] =
        IF \E e \in Docs : future[e].row.processing_status = "error"
        THEN "collected" ELSE "invoke"]
  /\ UNCHANGED <<config, export, aggregator, readback, jobrunner, component, elapsed, submitted, lastResp, future, results, main_pc>>

(* A pool thread takes the next work item off the executor's FIFO queue.   *)
StartWorker(d) ==
  /\ main_pc = "collecting"
  /\ pc[d] = "queued"
  /\ \A e \in Docs : e < d => pc[e] # "queued"
  /\ WorkerAvailable
  /\ pc' = [pc EXCEPT ![d] = "invoke"]
  /\ UNCHANGED <<config, export, aggregator, readback, jobrunner, component, elapsed, submitted, lastResp, future, results, main_pc>>

(* The worker leaves process_single_document: the future is finished and   *)
(* the locals of the poll loop are gone.                                   *)
Finish(d, fut) ==
  /\ future' = [future EXCEPT ![d] = fut]
  /\ pc' = [pc EXCEPT ![d] = "done"]
  /\ elapsed' = [elapsed EXCEPT ![d] = 0]

(* A worker that calls the submission again after a submission error.     *)
InvokeDocumentProcessingRetries(d) ==
  /\ pc[d] = "invoke"
  /\ \E ans \in SubmitAnswers :
       /\ submitted' = [submitted EXCEPT ![d] = ans]
       /\ IF InvocationStatus(ans) = "submitted"
          THEN pc' = [pc EXCEPT ![d] = "check"]
          ELSE pc' = pc
  /\ UNCHANGED <<config, export, aggregator, readback, jobrunner, component, future, elapsed, lastResp, results, main_pc>>

(* process_single_document, lines 67-95: the submission call and what      *)
(* follows it up to line 118, start_time = time.time().                    *)
InvokeDocumentProcessing(d) ==
  /\ pc[d] = "invoke"
  /\ \E ans \in SubmitAnswers :
       /\ submitted' = [submitted EXCEPT ![d] = ans]
       /\ CASE InvocationStatus(ans) = "submitted" ->
                /\ pc' = [pc EXCEPT ![d] = "check"]
                /\ UNCHANGED <<future, elapsed>>
            [] InvocationStatus(ans) = "error" ->
                Finish(d, FutureResult(ErrorRow(documents[d], ClientErrorText("invoke"))))
            [] OTHER ->
                Finish(d, WorkerCatch(documents[d], ExceptionText("invoke")))
  /\ UNCHANGED <<config, export, aggregator, readback, jobrunner, component, lastResp, results, main_pc>>

(* A timeout test against one clock started for the whole batch: it fires *)
(* once any document's loop has run too long.                              *)
TimeoutCheckSharedClock(d) ==
  /\ pc[d] = "check"
  /\ IF \E e \in Docs : TimedOut(elapsed[e], timeout)
     THEN Finish(d, WorkerCatch(documents[d], TimeoutText(timeout)))
     ELSE /\ pc' = [pc EXCEPT ![d] = "query"]
          /\ UNCHANGED <<future, elapsed>>
  /\ UNCHANGED <<config, export, aggregator, readback, jobrunner, component, submitted, lastResp, results, main_pc>>

(* A timeout test whose TimeoutError reports the elapsed time.             *)
TimeoutCheckReportsElapsed(d) ==
  /\ pc[d] = "check"
  /\ IF TimedOut(elapsed[d], timeout)
     THEN Finish(d, WorkerCatch(documents[d], TimeoutText(elapsed[d])))
     ELSE /\ pc' = [pc EXCEPT ![d] = "query"]
          /\ UNCHANGED <<future, elapsed>>
  /\ UNCHANGED <<config, export, aggregator, readback, jobrunner, component, submitted, lastResp, results, main_pc>>

(* wait_for_job_completion, lines 121-124: the timeout test at the top of  *)
(* the loop; the TimeoutError goes to the except clause of the worker.     *)
TimeoutCheck(d) ==
  /\ pc[d] = "check"
  /\ IF TimedOut(elapsed[d], timeout)
     THEN Finish(d, WorkerCatch(documents[d], TimeoutText(timeout)))
     ELSE /\ pc' = [pc EXCEPT ![d] = "query"]
          /\ UNCHANGED <<future, elapsed>>
  /\ UNCHANGED <<config, export, aggregator, readback, jobrunner, component, submitted, lastResp, results, main_pc>>

(* wait_for_job_completion, lines 126-146: one status query, which takes   *)
(* dur time units, and the branch on its answer; on SUCCESS the response   *)
(* goes through extract_results_from_response (process_single_document,    *)
(* lines 98-102).  The time of the call counts only where the loop goes    *)
(* on: the branches that leave it drop its clock.                          *)
StatusQuery(d) ==
  /\ pc[d] = "query"
  /\ \E resp \in QueryAnswers :
       /\ lastResp' = [lastResp EXCEPT ![d] = resp]
       /\ CASE PollDecision(resp) = "return" ->
                Finish(d, FutureResult(ExtractResults(resp, documents[d])))
            [] PollDecision(resp) = "failed" ->
                Finish(d, WorkerCatch(documents[d], JobFailedText(resp)))
            [] PollDecision(resp) = "raise" ->
                Finish(d, WorkerCatch(documents[d], QueryErrorText(resp)))
            [] OTHER ->
                \E dur \in 0..MaxCallDur :
                  /\ pc' = [pc EXCEPT ![d] = "sleep"]
                  /\ elapsed' = [elapsed EXCEPT ![d] = @ + dur]
                  /\ UNCHANGED future
  /\ UNCHANGED <<config, export, aggregator, readback, jobrunner, component, submitted, results, main_pc>>

(* time.sleep(poll_interval), lines 139, 142 and 146, and the jump back to *)
(* the top of the loop; the response of this iteration is dropped.         *)
Sleep(d) ==
  /\ pc[d] = "sleep"
  /\ elapsed' = [elapsed EXCEPT ![d] = @ + SleepAdvance(poll_interval)]
  /\ lastResp' = [lastResp EXCEPT ![d] = NoResponse]
  /\ pc' = [pc EXCEPT ![d] = "check"]
  /\ UNCHANGED <<config, export, aggregator, readback, jobrunner, component, submitted, future, results, main_pc>>

(* ---------------------------- the main thread -------------------------- *)

(* The row the as_completed loop appends for a finished future             *)
(* (lines 143-153): its result, or the error dictionary built from the     *)
(* exception future.result() raised.                                       *)
CollectedRow(d) ==
  IF future[d].state = "result"
  THEN future[d].row
  ELSE ErrorRow(documents[d], future[d].text)

(* A collection loop that keeps only the successful rows. *)
CollectResultDropsErrors(d) ==
  /\ main_pc = "collecting"
  /\ pc[d] = "done"
  /\ results' = IF CollectedRow(d).processing_status = "error"
                THEN results ELSE Append(results, CollectedRow(d))
  /\ pc' = [pc EXCEPT ![d] = "collected"]
  /\ UNCHANGED <<config, export, aggregator, readback, jobrunner, component, elapsed, submitted, lastResp, future, main_pc>>

(* A collection loop that keeps the latest row in the last slot. *)
CollectResultOverwrites(d) ==
  /\ main_pc = "collecting"
  /\ pc[d] = "done"
  /\ results' = IF results = <<>> THEN <<CollectedRow(d)>>
                ELSE [results EXCEPT ![Len(results)] = CollectedRow(d)]
  /\ pc' = [pc EXCEPT ![d] = "collected"]
  /\ UNCHANGED <<config, export, aggregator, readback, jobrunner, component, elapsed, submitted, lastResp, future, main_pc>>

(* One iteration of "for future in as_completed(future_to_doc)". *)
CollectResult(d) ==
  /\ main_pc = "collecting"
  /\ pc[d] = "done"
  /\ results' = Append(results, CollectedRow(d))
  /\ pc' = [pc EXCEPT ![d] = "collected"]
  /\ UNCHANGED <<config, export, aggregator, readback, jobrunner, component, elapsed, submitted, lastResp, future, main_pc>>

(* as_completed is exhausted, the executor shuts down, line 157 returns. *)
ReturnResults ==
  /\ main_pc = "collecting"
  /\ \A d \in Docs : pc[d] = "collected"
  /\ main_pc' = "returned"
  /\ UNCHANGED <<config, export, aggregator, readback, jobrunner, component, worker, results>>

Next ==
  \/ \E d \in Docs : StartWorker(d)
  \/ \E d \in Docs : InvokeDocumentProcessing(d)
  \/ \E d \in Docs : TimeoutCheck(d)
  \/ \E d \in Docs : StatusQuery(d)
  \/ \E d \in Docs : Sleep(d)
  \/ \E d \in Docs : CollectResult(d)
  \/ ReturnResults

Spec == Init /\ [][Next]_vars

(* Every pool thread and the main thread keep running: the remote calls    *)
(* return and time.sleep ends.                                             *)
FairSpec == Spec /\ WF_vars(Next)

(* ============================ properties =============================== *)

(* ------------------- export_results_to_csv ------------------------------ *)
(* base_columns and metadata_columns of export_results_to_csv. *)
base_columns ==
  <<"document", "SiteOnForm", "NameOnForm", "LogoOnForm", "EmailOnForm",
    "PhoneOnForm", "AddressOnForm", "SignatureOnForm", "LOB", "State",
    "Language">>

metadata_columns(flag) ==
  IF flag THEN <<"s3_uri", "processing_status", "error_message", "output_s3_uri">>
  ELSE <<>>

(* The ten schema fields extract_results_from_response copies. *)
SchemaFields == {base_columns[i] : i \in 2..Len(base_columns)}

Range(seq) == {seq[i] : i \in 1..Len(seq)}

(* The keys of a result dictionary: document, s3_uri and processing_status *)
(* always; error_message on error rows; output_s3_uri when the response    *)
(* had an outputConfiguration s3Uri; the schema fields when the response   *)
(* had an 'output'.                                                        *)
RowKeys(row) ==
  {"document", "s3_uri", "processing_status"}
  \cup (IF row.error_message # NoText THEN {"error_message"} ELSE {})
  \cup (IF row.output_s3_uri # Absent THEN {"output_s3_uri"} ELSE {})
  \cup (IF row.fields # Absent THEN SchemaFields ELSE {})

(* The value a result dictionary holds under one of its keys; a schema     *)
(* field holds whatever output_data.get(field, '') gave.                   *)
RowValue(row, col) ==
  CASE col = "document" -> row.document
    [] col = "s3_uri" -> row.s3_uri
    [] col = "processing_status" -> row.processing_status
    [] col = "error_message" -> row.error_message
    [] col = "output_s3_uri" -> row.output_s3_uri
    [] OTHER -> "value"

(* A frame written without fillna: the missing cells stay NaN. *)
BlankIsNaN(col) == IF col \in {"error_message", "s3_uri"} THEN <<"nan">> ELSE "nan"

(* The '' that df[col] = '' and df.fillna('') put in a cell without value  *)
(* (the empty text for the columns that hold texts).                       *)
Blank(col) == IF col \in {"error_message", "s3_uri"} THEN NoText ELSE ""

(* df.columns of pd.DataFrame(results): the union of the rows' keys. *)
DataFrameColumns(rs) == UNION {RowKeys(rs[i]) : i \in 1..Len(rs)}

(* Lines 191-197: the base columns are added when missing, then the        *)
(* requested columns are filtered by 'col in df.columns'.                  *)
ExportColumns(rs, flag) ==
  SelectSeq(base_columns \o metadata_columns(flag),
            LAMBDA col : col \in DataFrameColumns(rs) \cup Range(base_columns))

(* An export that writes the successful rows first. *)
ExportTableSuccessFirst(rs, flag) ==
  LET sorted == SelectSeq(rs, LAMBDA r : r.processing_status = "success")
                \o SelectSeq(rs, LAMBDA r : r.processing_status # "success")
  IN  [columns |-> ExportColumns(rs, flag),
       rows |-> [i \in 1..Len(rs) |->
                   [col \in Range(ExportColumns(rs, flag)) |->
                      IF col \in RowKeys(sorted[i]) THEN RowValue(sorted[i], col)
                      ELSE Blank(col)]]]

(* The frame handed to to_csv: one row per result, in the list's order. *)
ExportTable(rs, flag) ==
  [columns |-> ExportColumns(rs, flag),
   rows |-> [i \in 1..Len(rs) |->
               [col \in Range(ExportColumns(rs, flag)) |->
                  IF col \in RowKeys(rs[i]) THEN RowValue(rs[i], col)
                  ELSE Blank(col)]]]

(* A percentage computed with integer division: whole percents only. *)
PercentTenthsWhole(count, total) == ((count * 100) \div total) * 10

(* f"{count/total*100:.1f}" in tenths of a percent: the nearest tenth,     *)
(* a tie going to the even one.                                            *)
PercentTenths(count, total) ==
  LET q == (count * 1000) \div total
      r == (count * 1000) % total
  IN  IF 2 * r > total THEN q + 1
      ELSE IF 2 * r < total THEN q
      ELSE q + (q % 2)

(* Lines 207-218; with no rows line 216 divides by zero after the total    *)
(* was logged, and no percentage is reported.                              *)
SummaryOf(rs) ==
  LET total_docs == Len(rs)
      successful == Cardinality({i \in 1..Len(rs) : rs[i].processing_status = "success"})
      failed == total_docs - successful
  IN  [total |-> total_docs, successful |-> successful, failed |-> failed,
       percents |-> IF total_docs = 0 THEN <<>>
                    ELSE <<PercentTenths(successful, total_docs),
                           PercentTenths(failed, total_docs)>>]

(* The result dictionaries process_documents_batch can return for a key. *)
RowShapes(key) ==
  <<ErrorRow(key, ClientErrorText("invoke")),
    ErrorRow(key, TimeoutText(1)),
    ErrorRow(key, JobFailedText(Response("FAILED", "E1", Absent, Absent))),
    ExtractResults(Response("SUCCESS", Absent, "bad_string", "s3://out"), key),
    ExtractResults(Response("SUCCESS", Absent, "mapping", "s3://out"), key),
    ExtractResults(Response("SUCCESS", Absent, "mapping", Absent), key),
    ExtractResults(Response("SUCCESS", Absent, Absent, "s3://out"), key),
    ExtractResults(Response("SUCCESS", Absent, Absent, Absent), key)>>

(* One success and one error dictionary. *)
StatusShapes(key) ==
  <<ErrorRow(key, TimeoutText(1)),
    ExtractResults(Response("SUCCESS", Absent, "mapping", "s3://out"), key)>>

(* process_documents_batch has returned the results list rs, one row per   *)
(* document; main is about to export it.                                   *)
ReturnedWith(rs) ==
  /\ documents = [i \in 1..Len(rs) |-> <<"docs", i>>]
  /\ results = rs
  /\ batch_size = 1
  /\ poll_interval = 1
  /\ timeout = 1
  /\ pc = [d \in Docs |-> "collected"]
  /\ elapsed = [d \in Docs |-> 0]
  /\ submitted = [d \in Docs |-> NoValue]
  /\ lastResp = [d \in Docs |-> NoResponse]
  /\ future = [d \in Docs |->
                 FutureResult(rs[CHOOSE i \in 1..Len(rs) : rs[i].document = d])]
  /\ main_pc = "returned"
  /\ include_metadata \in BOOLEAN
  /\ df = NoTable
  /\ summary = NoSummary
  /\ AggregatorNotRun
  /\ ReadBackNotRun
  /\ JobRunnerNotRun
  /\ ComponentsNotRun

(* The rows come in the order in which the futures completed: any order   *)
(* of the documents.                                                       *)
ExportInit ==
  \E n \in 0..MaxRows :
    \E shape \in [1..n -> 1..Len(RowShapes(<<"docs", 1>>))],
       order \in Permutations(1..n) :
      ReturnedWith([i \in 1..n |-> RowShapes(<<"docs", order[i]>>)[shape[i]]])

SummaryInit ==
  \E n \in 0..MaxSummaryRows :
    \E shape \in [1..n -> 1..Len(StatusShapes(<<"docs", 1>>))] :
      ReturnedWith([i \in 1..n |-> StatusShapes(<<"docs", i>>)[shape[i]]])

(* export_results_to_csv(results, output_file, include_metadata, logger) *)
ExportResultsToCsv ==
  /\ main_pc = "returned"
  /\ df' = ExportTable(results, include_metadata)
  /\ summary' = SummaryOf(results)
  /\ main_pc' = IF Len(results) = 0 THEN "ZeroDivisionError" ELSE "exported"
  /\ UNCHANGED <<config, worker, results, include_metadata, aggregator, readback, jobrunner, component>>

ExportNext == ExportResultsToCsv

ExportSpec == ExportInit /\ [][ExportNext]_vars

SummarySpec == SummaryInit /\ [][ExportNext]_vars


(* ------------------- ResultAggregator (output.py) ----------------------- *)
(* JSON values: null, a string, a number, a list.  s is str(value) as a    *)
(* sequence of characters.                                                 *)
JNull == [t |-> "null", s |-> <<>>, items |-> <<>>]

JStr(chars) == [t |-> "str", s |-> chars, items |-> <<>>]

JNum(chars) == [t |-> "num", s |-> chars, items |-> <<>>]

JList(xs) == [t |-> "list", s |-> <<>>, items |-> xs]

(* fieldnames main.py hands to build_csv: the names of                     *)
(* default_field_definitions().                                            *)
fieldnames ==
  <<"SiteOnForm", "NameOnForm", "LogoOnForm", "EmailOnForm", "PhoneOnForm",
    "AddressOnForm", "SignatureOnForm", "LOB", "State", "Language">>

FIELD_JOIN_RULES == [LogoOnForm |-> <<",">>]

(* FIELD_JOIN_RULES.get(field_name, ", ") *)
Joiner(field_name) ==
  IF field_name \in DOMAIN FIELD_JOIN_RULES THEN FIELD_JOIN_RULES[field_name]
  ELSE <<",", " ">>

(* joiner.join(texts) *)
RECURSIVE Join(_, _)
Join(sep, texts) ==
  IF texts = <<>> THEN <<>>
  ELSE IF Len(texts) = 1 THEN texts[1]
  ELSE texts[1] \o sep \o Join(sep, Tail(texts))

RECURSIVE NormalizeValue(_, _)
(* A normalizer that joins the elements of a list without dropping the     *)
(* empty ones.                                                             *)
NormalizeValueKeepsEmpty(value, field_name) ==
  IF value.t = "null" THEN <<>>
  ELSE IF value.t = "list"
       THEN Join(Joiner(field_name),
                 [i \in 1..Len(value.items) |-> NormalizeValue(value.items[i], field_name)])
  ELSE value.s

(* _normalize_value(value, field_name) *)
NormalizeValue(value, field_name) ==
  IF value.t = "null" THEN <<>>
  ELSE IF value.t = "list"
       THEN Join(Joiner(field_name),
                 SelectSeq([i \in 1..Len(value.items) |->
                              NormalizeValue(value.items[i], field_name)],
                           LAMBDA normalized : normalized # <<>>))
  ELSE value.s

(* _normalize_record(record) *)
NormalizeRecord(rec) == [key \in DOMAIN rec |-> NormalizeValue(rec[key], key)]

(* A writer that is handed the record itself. *)
BuildCsvRowWritesRecord(rec, fields) == rec

(* {field: record.get(field, "") for field in fieldnames} *)
BuildCsvRow(rec, fields) ==
  [field \in Range(fields) |-> IF field \in DOMAIN rec THEN rec[field] ELSE <<>>]

(* utils.py 177-181: result[field] = output_data.get(field, '') *)
ExtractFields(output_data) ==
  [field \in SchemaFields |->
     IF field \in DOMAIN output_data THEN output_data[field] ELSE JStr(<<>>)]

(* The elements a list-valued field is drawn from, and the lists. *)
JItems ==
  {JNull, JStr(<<>>), JStr(<<"a">>), JStr(<<"b">>), JNum(<<"0">>),
   JList(<<JStr(<<>>), JNull>>)}

JLists == UNION {[1..n -> JItems] : n \in 0..MaxListLen}

(* The JSON objects read back: one list-valued field, or a few keys (one   *)
(* outside the schema) with a null, a string or a list.                    *)
Records ==
  {[key \in {k} |-> JList(xs)] : k \in {"SiteOnForm", "LogoOnForm"}, xs \in JLists}
  \cup UNION {[ks -> {JNull, JStr(<<"a">>), JList(<<JStr(<<"a">>), JStr(<<>>), JStr(<<"b">>)>>)}] :
               ks \in SUBSET {"SiteOnForm", "State", "Unlisted"}}

(* One JSON object is at hand; no batch runs. *)
AggregatorInit ==
  /\ documents = <<>>
  /\ batch_size = 1
  /\ poll_interval = 1
  /\ timeout = 1
  /\ pc = <<>>
  /\ elapsed = <<>>
  /\ submitted = <<>>
  /\ lastResp = <<>>
  /\ future = <<>>
  /\ results = <<>>
  /\ main_pc = "read_back"
  /\ ExportNotRun
  /\ record \in Records
  /\ csv_row = NoDict
  /\ extracted = NoDict
  /\ ReadBackNotRun
  /\ JobRunnerNotRun
  /\ ComponentsNotRun

(* build_csv on the record: normalized by _iter_job_records, then written. *)
BuildCsv ==
  /\ main_pc = "read_back"
  /\ DOMAIN csv_row = {}
  /\ csv_row' = BuildCsvRow(NormalizeRecord(record), fieldnames)
  /\ UNCHANGED <<config, worker, results, main_pc, export, readback, jobrunner, component, record, extracted>>

(* extract_results_from_response with the record as response['output']. *)
ExtractOutput ==
  /\ main_pc = "read_back"
  /\ DOMAIN extracted = {}
  /\ extracted' = ExtractFields(record)
  /\ UNCHANGED <<config, worker, results, main_pc, export, readback, jobrunner, component, record, csv_row>>

AggregatorNext == BuildCsv \/ ExtractOutput

AggregatorSpec == AggregatorInit /\ [][AggregatorNext]_vars


(* ------------------- result read-back (output.py) ----------------------- *)
(* One JSON text: a line of a .jsonl artifact, the body of a .json         *)
(* artifact, or an item of an array.  t is what json.loads makes of it:    *)
(* an object (obj), an array (items), another value, a JSONDecodeError;    *)
(* "blank" is an empty line.                                               *)
JText(t, obj, items) == [t |-> t, obj |-> obj, items |-> items]

JObject(c) == JText("object", [key \in {"SiteOnForm"} |-> JStr(<<c>>)], <<>>)

JScalar == JText("scalar", NoDict, <<>>)

JBlank == JText("blank", NoDict, <<>>)

JMalformed == JText("malformed", NoDict, <<>>)

JArray(items) == JText("array", NoDict, items)

(* An object under the prefix: the suffix of its key and its texts (the    *)
(* lines of a .jsonl, the one document of a .json).                        *)
Artifact(suffix, texts) == [suffix |-> suffix, texts |-> texts]

Artifacts ==
  {Artifact(".jsonl", lines) :
     lines \in {<<>>, <<JObject("1")>>, <<JBlank, JObject("1")>>,
                <<JObject("1"), JScalar, JObject("2")>>,
                <<JObject("1"), JMalformed>>, <<JMalformed>>,
                <<JArray(<<JObject("2")>>), JObject("1")>>}}
  \cup {Artifact(".json", <<doc>>) :
          doc \in {JObject("1"), JObject("2"), JScalar, JMalformed, JArray(<<>>),
                   JArray(<<JObject("1"), JScalar, JObject("2")>>)}}
  \cup {Artifact(".txt", <<JObject("1")>>)}

(* What a generator has yielded when it ends or raises. *)
Yielded(raised, records) == [raised |-> raised, records |-> records]

(* _load_json_lines: blank lines are skipped, json.loads is not guarded,   *)
(* objects are normalized and yielded.                                     *)
RECURSIVE LoadJsonLines(_)
LoadJsonLines(lines) ==
  IF lines = <<>> THEN Yielded(FALSE, <<>>)
  ELSE IF Head(lines).t = "malformed" THEN Yielded(TRUE, <<>>)
  ELSE LET rest == LoadJsonLines(Tail(lines))
           here == IF Head(lines).t = "object"
                   THEN <<NormalizeRecord(Head(lines).obj)>> ELSE <<>>
       IN  Yielded(rest.raised, here \o rest.records)

(* The dictionaries among the items of a .json array, normalized. *)
RECURSIVE ArrayRecords(_)
ArrayRecords(items) ==
  IF items = <<>> THEN <<>>
  ELSE (IF Head(items).t = "object" THEN <<NormalizeRecord(Head(items).obj)>> ELSE <<>>)
       \o ArrayRecords(Tail(items))

(* A read of one key that takes a .json document for a single object and  *)
(* yields nothing for an array.                                            *)
ArtifactRecordsIgnoresArrays(a) ==
  IF a.suffix = ".jsonl" THEN LoadJsonLines(a.texts)
  ELSE IF a.suffix = ".json"
       THEN LET document == a.texts[1]
            IN  IF document.t = "malformed" THEN Yielded(TRUE, <<>>)
                ELSE IF document.t = "object"
                     THEN Yielded(FALSE, <<NormalizeRecord(document.obj)>>)
                ELSE Yielded(FALSE, <<>>)
  ELSE Yielded(FALSE, <<>>)

(* The body of the loop of _iter_job_records for one key, lines 35-45. *)
ArtifactRecords(a) ==
  IF a.suffix = ".jsonl" THEN LoadJsonLines(a.texts)
  ELSE IF a.suffix = ".json"
       THEN LET document == a.texts[1]
            IN  IF document.t = "malformed" THEN Yielded(TRUE, <<>>)
                ELSE IF document.t = "array" THEN Yielded(FALSE, ArrayRecords(document.items))
                ELSE IF document.t = "object"
                     THEN Yielded(FALSE, <<NormalizeRecord(document.obj)>>)
                ELSE Yielded(FALSE, <<>>)
  ELSE Yielded(FALSE, <<>>)

(* _iter_job_records over the listing: it ends at the first exception. *)
RECURSIVE IterJobRecords(_)
IterJobRecords(objects) ==
  IF objects = <<>> THEN Yielded(FALSE, <<>>)
  ELSE LET first == ArtifactRecords(Head(objects))
       IN  IF first.raised THEN Yielded(TRUE, first.records)
           ELSE LET rest == IterJobRecords(Tail(objects))
                IN  Yielded(rest.raised, first.records \o rest.records)

(* build_csv is about to read back a prefix that lists some artifacts. *)
ReadBackInit ==
  /\ BatchNotRun
  /\ main_pc = "read_back"
  /\ ExportNotRun
  /\ AggregatorNotRun
  /\ JobRunnerNotRun
  /\ ComponentsNotRun
  /\ \E n \in 0..MaxArtifacts : listing \in [1..n -> Artifacts]
  /\ csv_file = NoFile
  /\ build_pc = "build_csv"

(* build_csv, lines 18-27: the records are collected first; an exception   *)
(* of the read leaves before the file is opened.                           *)
BuildCsvFile ==
  /\ build_pc = "build_csv"
  /\ LET read == IterJobRecords(listing)
     IN  IF read.raised
         THEN /\ build_pc' = "JSONDecodeError"
              /\ csv_file' = csv_file
         ELSE /\ build_pc' = "returned"
              /\ csv_file' = [header |-> fieldnames,
                              rows |-> [i \in 1..Len(read.records) |->
                                          BuildCsvRow(read.records[i], fieldnames)]]
  /\ UNCHANGED <<config, worker, results, main_pc, export, aggregator, listing, jobrunner, component>>

ReadBackNext == BuildCsvFile

ReadBackSpec == ReadBackInit /\ [][ReadBackNext]_vars


(* ------------------- JobRunner (job.py) --------------------------------- *)
TERMINAL_STATES == {"SUCCEEDED", "FAILED", "STOPPED"}

(* The statuses get_document_processing_job may report (Absent: none). *)
JobStatuses == TERMINAL_STATES \cup {"IN_PROGRESS", "CREATED", Absent}

(* The job dictionaries start_document_processing_job may answer with: the *)
(* subsets of the keys id, jobId, name that hold a value.                  *)
StartAnswers == SUBSET {"id", "jobId", "name"}

(* job.get("id") or job.get("jobId") or job.get("name") *)
JobIdentifier(job) ==
  IF "id" \in job THEN "id"
  ELSE IF "jobId" \in job THEN "jobId"
  ELSE IF "name" \in job THEN "name"
  ELSE Absent

(* Answers of stop_document_processing_job: success, a ClientError with    *)
(* its error code, an exception that is no ClientError.                    *)
StopAnswers ==
  {"ok", "ConflictException", "ValidationException", "AccessDeniedException",
   "ThrottlingException", "ResourceNotFoundException", "EndpointConnectionError"}

ClientErrorCodes ==
  {"ConflictException", "ValidationException", "AccessDeniedException",
   "ThrottlingException", "ResourceNotFoundException"}

(* A safe_stop that swallows every ClientError. *)
SafeStopSwallowsAll(ans) ==
  IF ans = "ok" \/ ans \in ClientErrorCodes THEN "returned" ELSE "raised"

(* safe_stop, lines 74-79: how the call ends on an answer of the service. *)
SafeStopResult(ans) ==
  IF ans = "ok" THEN "returned"
  ELSE IF ans \in ClientErrorCodes
       THEN IF ans \notin {"ConflictException", "ValidationException"}
            THEN "raised" ELSE "returned"
  ELSE "raised"

(* A JobRunner was constructed; start_job is about to be called. *)
JobInit ==
  /\ BatchNotRun
  /\ main_pc = "start_job"
  /\ ExportNotRun
  /\ AggregatorNotRun
  /\ ReadBackNotRun
  /\ job_pc = "start"
  /\ job_identifier = NoValue
  /\ job_status = NoValue
  /\ stop_answer = NoValue
  /\ stop_result = NoValue
  /\ ComponentsNotRun

(* start_job, lines 24-32: the start call (which may raise a ClientError), *)
(* the identifier, and the entry into _wait_for_completion.                *)
StartJob ==
  /\ job_pc = "start"
  /\ \/ /\ job_pc' = "ClientError"
        /\ UNCHANGED job_identifier
     \/ \E job \in StartAnswers :
          /\ job_identifier' = JobIdentifier(job)
          /\ job_pc' = IF JobIdentifier(job) = Absent THEN "RuntimeError" ELSE "query"
  /\ UNCHANGED <<config, worker, results, main_pc, export, aggregator, readback, component,
                 job_status, stop_answer, stop_result>>

(* A wait that returns the job on any terminal status. *)
QueryJobReturnsAnyTerminal ==
  /\ job_pc = "query"
  /\ \/ /\ job_pc' = "ClientError"
        /\ UNCHANGED job_status
     \/ \E status \in JobStatuses :
          /\ job_status' = status
          /\ job_pc' = IF status \in TERMINAL_STATES THEN "returned" ELSE "sleep"
  /\ UNCHANGED <<config, worker, results, main_pc, export, aggregator, readback, component,
                 job_identifier, stop_answer, stop_result>>

(* _wait_for_completion, lines 62-68: one query and the test of its status *)
(* (a ClientError of the query leaves the loop).                           *)
QueryJob ==
  /\ job_pc = "query"
  /\ \/ /\ job_pc' = "ClientError"
        /\ UNCHANGED job_status
     \/ \E status \in JobStatuses :
          /\ job_status' = status
          /\ job_pc' = IF status \in TERMINAL_STATES
                       THEN (IF status # "SUCCEEDED" THEN "RuntimeError" ELSE "returned")
                       ELSE "sleep"
  /\ UNCHANGED <<config, worker, results, main_pc, export, aggregator, readback, component,
                 job_identifier, stop_answer, stop_result>>

(* time.sleep(poll_seconds), line 69, and the jump to the top of the loop. *)
SleepJob ==
  /\ job_pc = "sleep"
  /\ job_pc' = "query"
  /\ UNCHANGED <<config, worker, results, main_pc, export, aggregator, readback, component,
                 job_identifier, job_status, stop_answer, stop_result>>

(* safe_stop(job_identifier), called once the identifier is known, at any  *)
(* stage of the job.                                                       *)
SafeStop ==
  /\ job_identifier \notin {NoValue, Absent}
  /\ stop_result = NoValue
  /\ \E ans \in StopAnswers :
       /\ stop_answer' = ans
       /\ stop_result' = SafeStopResult(ans)
  /\ UNCHANGED <<config, worker, results, main_pc, export, aggregator, readback, component,
                 job_pc, job_identifier, job_status>>

JobNext == StartJob \/ QueryJob \/ SleepJob \/ SafeStop

JobSpec == JobInit /\ [][JobNext]_vars

(* The thread in _wait_for_completion keeps running: the query returns and *)
(* the sleep ends.                                                         *)
JobFairSpec == JobSpec /\ WF_vars(QueryJob) /\ WF_vars(SleepJob)


(* Positions in results of the rows produced for document d. *)
RowsOf(d) == {i \in 1..Len(results) : results[i].s3_uri = S3Uri(documents[d])}

(* The worker of d ended in the timeout test of its poll loop. *)
IsTimeoutRow(row) ==
  /\ row.processing_status = "error"
  /\ row.error_message = <<"Job processing exceeded timeout of", timeout, "seconds">>

(* d's own answers were a successful submission, then a SUCCESS response   *)
(* whose output is usable.                                                 *)
OwnSuccess(d) ==
  /\ submitted[d] = "ok"
  /\ lastResp[d].kind = "response"
  /\ lastResp[d].status = "SUCCESS"
  /\ lastResp[d].output # "bad_string"

(* C1: when process_documents_batch returns, results holds exactly one row *)
(* per input document, whatever path the document took; at no time is a   *)
(* document reported twice.                                                *)
C1_OneResultPerDocument ==
  /\ \A d \in Docs : Cardinality(RowsOf(d)) <= 1
  /\ main_pc = "returned" =>
       /\ Len(results) = Len(documents)
       /\ \A d \in Docs : Cardinality(RowsOf(d)) = 1

(* C1 witness: a returned batch of two or more documents, one of which     *)
(* succeeded and one of which timed out.                                   *)
C1_Witness ==
  /\ main_pc = "returned"
  /\ Len(documents) >= 2
  /\ \E i, j \in 1..Len(results) :
       /\ results[i].processing_status = "success"
       /\ IsTimeoutRow(results[j])

(* C2: at every moment at most batch_size documents are in the hands of a  *)
(* worker (taken from the queue, not yet at their terminal outcome).       *)
C2_ConcurrencyBounded == Cardinality(Running) <= batch_size

(* C2 witness: the pool is full while a further document waits in the      *)
(* queue.                                                                  *)
C2_Witness ==
  /\ Cardinality(Running) = batch_size
  /\ \E d \in Docs : pc[d] = "queued"
  /\ \E d \in Docs : pc[d] = "sleep"

(* C3: when the batch returns, every document was submitted, reached its   *)
(* own terminal outcome and has its row in results, and the row says       *)
(* success exactly when the document's own answers were a success: the     *)
(* failures of the other documents change nothing for it, and a failing    *)
(* document keeps its row.                                                 *)
C3_FailureIsolated ==
  main_pc = "returned" =>
    \A d \in Docs :
      /\ submitted[d] # NoValue
      /\ future[d].state # "pending"
      /\ RowsOf(d) # {}
      /\ \A i \in RowsOf(d) :
           results[i].processing_status =
             IF OwnSuccess(d) THEN "success" ELSE "error"

(* C3 witness: with one worker, the first document failed and the second,  *)
(* started after that failure, succeeded; both rows are in results.        *)
C3_Witness ==
  /\ main_pc = "returned"
  /\ batch_size = 1
  /\ Len(documents) >= 2
  /\ \E i \in RowsOf(1) : results[i].processing_status = "error"
  /\ \E i \in RowsOf(2) : results[i].processing_status = "success"

(* Largest elapsed time a poll loop can read: the last query starts at     *)
(* elapsed <= timeout, takes at most MaxCallDur and is followed by one     *)
(* sleep.                                                                  *)
ElapsedMax == timeout + MaxCallDur + poll_interval

(* Steps the worker of d and the collection of its future still have       *)
(* ahead of them, at most.                                                 *)
WorkerRank(d) ==
  LET at == pc[d]
  IN  CASE at = "collected" -> 0
        [] at = "done"      -> 1
        [] at = "sleep"     -> 3 * (ElapsedMax - elapsed[d]) + 2
        [] at = "query"     -> 3 * (ElapsedMax - elapsed[d]) + 3
        [] at = "check"     -> 3 * (ElapsedMax - elapsed[d]) + 4
        [] at = "invoke"    -> 3 * ElapsedMax + 5
        [] at = "queued"    -> 3 * ElapsedMax + 6

RECURSIVE RankUpTo(_)
RankUpTo(n) == IF n = 0 THEN 0 ELSE WorkerRank(n) + RankUpTo(n - 1)

Rank == RankUpTo(Len(documents)) + (IF main_pc = "collecting" THEN 1 ELSE 0)

BatchReturned ==
  /\ main_pc = "returned"
  /\ \A d \in Docs : pc[d] = "collected" /\ future[d].state # "pending"

(* C4: every step of a worker or of the main thread lowers a rank that is  *)
(* never negative, and a step is possible in every state in which the      *)
(* batch has not returned with every document collected at a terminal      *)
(* outcome: no poll loop runs forever, and with calls that return and a    *)
(* clock that advances (FairSpec) the batch returns.                       *)
C4_BatchTerminates ==
  /\ [](Rank >= 0)
  /\ [](BatchReturned \/ ENABLED Next)
  /\ [][Rank' < Rank]_vars

(* C4 witness: a returned batch in which a document's poll loop ended by   *)
(* timeout.                                                                *)
C4_Witness ==
  /\ main_pc = "returned"
  /\ \E d \in Docs : future[d].state = "result" /\ IsTimeoutRow(future[d].row)

(* C5: a status query is issued only while elapsed <= timeout (the test    *)
(* precedes every query); a poll loop that ended without a terminal answer *)
(* ended with the timed-out outcome, which appears once in results.        *)
C5_TimeoutEndsPolling ==
  \A d \in Docs :
    /\ pc[d] = "query" => elapsed[d] <= timeout
    /\ (/\ Finished(d)
        /\ submitted[d] = "ok"
        /\ ~(lastResp[d].kind = "response" /\ lastResp[d].status \in {"SUCCESS", "FAILED"})
        /\ lastResp[d].kind # "Exception")
       => /\ future[d].state = "result"
          /\ IsTimeoutRow(future[d].row)
          /\ Cardinality(RowsOf(d)) = (IF pc[d] = "collected" THEN 1 ELSE 0)
          /\ \A i \in RowsOf(d) : IsTimeoutRow(results[i])

(* C5 witness: a collected document whose outcome is the timeout. *)
C5_Witness ==
  \E d \in Docs :
    /\ pc[d] = "collected"
    /\ \E i \in RowsOf(d) : IsTimeoutRow(results[i])

(* C6: a response with status SUCCEEDED ends the poll loop with a success  *)
(* outcome.                                                                *)
C6_SucceededEndsPolling ==
  \A d \in Docs :
    (lastResp[d].kind = "response" /\ lastResp[d].status = "SUCCEEDED")
      => /\ Finished(d)
         /\ future[d].state = "result"
         /\ future[d].row.processing_status = "success"

(* C7: a response with status FAILED ends the poll loop at once; the       *)
(* outcome is an error that carries the error text of the response, the    *)
(* job is neither polled again nor resubmitted, and the document's row in  *)
(* results carries that text.                                              *)
C7_FailedEndsPolling ==
  \A d \in Docs :
    (lastResp[d].kind = "response" /\ lastResp[d].status = "FAILED")
      => LET text == <<"Job failed:",
                       IF lastResp[d].error = Absent
                       THEN "Unknown error" ELSE lastResp[d].error>>
         IN /\ Finished(d)
            /\ submitted[d] = "ok"
            /\ future[d].state = "result"
            /\ future[d].row.processing_status = "error"
            /\ future[d].row.error_message = text
            /\ \A i \in RowsOf(d) :
                 /\ results[i].processing_status = "error"
                 /\ results[i].error_message = text

(* C7 witness: a collected document whose job the service reported FAILED  *)
(* with an error text.                                                     *)
C7_Witness ==
  \E d \in Docs :
    /\ pc[d] = "collected"
    /\ lastResp[d].status = "FAILED"
    /\ lastResp[d].error = "E1"
    /\ RowsOf(d) # {}

(* C8: a failed submission call ends the worker at once with an error      *)
(* outcome for the document; no status query is issued for it.             *)
C8_SubmissionErrorSkipsPolling ==
  \A d \in Docs :
    submitted[d] \in {"ClientError", "Exception"}
      => /\ Finished(d)
         /\ lastResp[d] = NoResponse
         /\ future[d].state = "result"
         /\ future[d].row.processing_status = "error"
         /\ future[d].row.error_message = <<submitted[d], "invoke">>
         /\ future[d].row.s3_uri = S3Uri(documents[d])

(* C8 witness: a collected document whose submission got a ClientError. *)
C8_Witness ==
  \E d \in Docs :
    /\ submitted[d] = "ClientError"
    /\ pc[d] = "collected"
    /\ RowsOf(d) # {}

(* C9: an exception raised in a worker at submission, at a status query or *)
(* in result extraction never ends the future with an exception: the       *)
(* future's result is an error row of the document that carries the        *)
(* exception text, and the batch returns that row.                         *)
C9_WorkerExceptionBecomesErrorRow ==
  \A d \in Docs :
    LET raisedText ==
          IF submitted[d] = "Exception" THEN <<"Exception", "invoke">>
          ELSE IF lastResp[d].kind = "Exception" THEN <<"Exception", "status">>
          ELSE IF lastResp[d].status = "SUCCESS" /\ lastResp[d].output = "bad_string"
          THEN <<"AttributeError", "'str' object has no attribute 'get'">>
          ELSE <<>>
    IN /\ future[d].state # "exception"
       /\ raisedText # <<>> =>
            /\ Finished(d)
            /\ future[d].state = "result"
            /\ future[d].row.processing_status = "error"
            /\ future[d].row.error_message = raisedText
            /\ future[d].row.s3_uri = S3Uri(documents[d])
            /\ main_pc = "returned" =>
                 \E i \in RowsOf(d) : results[i] = future[d].row

(* C9 witness: the batch returned; one document's status query raised an   *)
(* exception and another document succeeded.                               *)
C9_Witness ==
  /\ main_pc = "returned"
  /\ \E d, e \in Docs :
       /\ lastResp[d].kind = "Exception"
       /\ \E i \in RowsOf(d) : results[i].error_message = <<"Exception", "status">>
       /\ \E i \in RowsOf(e) : results[i].processing_status = "success"

UnknownStatus(resp) ==
  /\ resp.kind = "response"
  /\ resp.status \notin {"SUCCESS", "FAILED", "IN_PROGRESS", "PENDING"}

(* C11: after a response whose status the loop does not know (a missing    *)
(* status included) the document has no outcome yet and the loop is in its *)
(* sleep, which lasts poll_interval and leads back to the timeout test.    *)
C11_UnknownStatusIsNonTerminal ==
  /\ [](\A d \in Docs :
          UnknownStatus(lastResp[d])
            => /\ pc[d] = "sleep"
               /\ future[d].state = "pending"
               /\ RowsOf(d) = {})
  /\ [][\A d \in Docs :
          (UnknownStatus(lastResp[d]) /\ pc'[d] # pc[d])
            => /\ pc'[d] = "check"
               /\ elapsed'[d] = elapsed[d] + poll_interval
               /\ future'[d].state = "pending"]_vars

(* C11 witness: a response without status was received at elapsed 0 and    *)
(* the loop sleeps.                                                        *)
C11_Witness ==
  \E d \in Docs :
    /\ lastResp[d].kind = "response"
    /\ lastResp[d].status = Absent
    /\ pc[d] = "sleep"

(* C12: per document, the submission call precedes every status query and  *)
(* every status query precedes the outcome and its collection: a worker in *)
(* its poll loop has submitted and has no outcome yet; before the          *)
(* submission there is no response; a finished document gets no further    *)
(* submission or query; a row is in results only once the future is done.  *)
C12_SubmitThenPollThenOutcome ==
  /\ [](\A d \in Docs :
          /\ pc[d] \in {"check", "query", "sleep"}
               => /\ submitted[d] = "ok"
                  /\ future[d].state = "pending"
                  /\ RowsOf(d) = {}
          /\ submitted[d] = NoValue
               => /\ lastResp[d] = NoResponse
                  /\ future[d].state = "pending"
          /\ RowsOf(d) # {} => pc[d] = "collected" /\ future[d].state # "pending")
  /\ [][\A d \in Docs :
          /\ lastResp'[d] # lastResp[d]
               => submitted[d] = "ok" /\ future[d].state = "pending"
          /\ submitted'[d] # submitted[d]
               => lastResp[d] = NoResponse /\ future[d].state = "pending"
          /\ Finished(d)
               => /\ Finished(d)'
                  /\ future'[d] = future[d]
                  /\ lastResp'[d] = lastResp[d]
                  /\ submitted'[d] = submitted[d]]_vars

(* C12 witness: a collected document that was submitted and whose last     *)
(* status query was answered.                                              *)
C12_Witness ==
  \E d \in Docs :
    /\ pc[d] = "collected"
    /\ submitted[d] = "ok"
    /\ lastResp[d].kind = "response"
    /\ RowsOf(d) # {}

(* C13: every row of the returned results carries the s3_uri and the name  *)
(* of an input document, and the rows map one-to-one onto the documents:   *)
(* each document location occurs exactly once among the s3_uri values.     *)
C13_RowsTraceToDocuments ==
  /\ \A i \in 1..Len(results) :
       \E d \in Docs :
         /\ results[i].s3_uri = <<"s3:", bucket>> \o documents[d]
         /\ results[i].document = documents[d][Len(documents[d])]
  /\ main_pc = "returned" =>
       /\ Len(results) = Len(documents)
       /\ \A d \in Docs :
            Cardinality({i \in 1..Len(results) :
                           results[i].s3_uri = <<"s3:", bucket>> \o documents[d]}) = 1

(* C13 witness: a returned batch of two documents, one of whose rows is    *)
(* the error row of a failed result extraction.                            *)
C13_Witness ==
  /\ main_pc = "returned"
  /\ Len(documents) >= 2
  /\ \E i \in 1..Len(results) :
       results[i].error_message = <<"AttributeError", "'str' object has no attribute 'get'">>

(* Kind of the failure that ended the worker of d. *)
FailureKind(d) ==
  IF ~Finished(d) THEN "none"
  ELSE IF submitted[d] \in {"ClientError", "Exception"} THEN "submission"
  ELSE IF lastResp[d].kind = "response" /\ lastResp[d].status = "FAILED" THEN "remote"
  ELSE IF IsTimeoutRow(future[d].row) THEN "timeout"
  ELSE "none"

Exported == main_pc \in {"exported", "ZeroDivisionError"}

(* Row i of the exported table has '' in every schema field. *)
SchemaFieldsBlank(i) ==
  \A f \in {"SiteOnForm", "NameOnForm", "LogoOnForm", "EmailOnForm", "PhoneOnForm",
             "AddressOnForm", "SignatureOnForm", "LOB", "State", "Language"} :
    /\ f \in DOMAIN df.rows[i]
    /\ df.rows[i][f] = ""

(* Row i of the exported table carries the error text of result i. *)
CarriesErrorText(i) ==
  /\ "error_message" \in DOMAIN df.rows[i]
  /\ df.rows[i]["error_message"] = results[i].error_message
  /\ df.rows[i]["error_message"] # <<>>

(* C15 as claimed: every exported row of an error result has every schema  *)
(* field empty and carries the error text, whatever the export's flags.    *)
C15_ErrorRowsBlankWithText ==
  Exported =>
    \A i \in 1..Len(results) :
      results[i].processing_status = "error"
        => SchemaFieldsBlank(i) /\ CarriesErrorText(i)

(* C15 as amended: every exported row of an error result has every schema  *)
(* field empty; it carries the error text when metadata columns are        *)
(* enabled, and has no error_message column when they are not.             *)
C15_ErrorRowsBlankTextWithMetadata ==
  Exported =>
    /\ Len(df.rows) = Len(results)
    /\ \A i \in 1..Len(results) :
         results[i].processing_status = "error"
           => /\ SchemaFieldsBlank(i)
              /\ include_metadata => CarriesErrorText(i)
              /\ ~include_metadata => "error_message" \notin DOMAIN df.rows[i]

(* C15 witness: exported with metadata, a timed-out document next to a     *)
(* successful one whose schema fields have values.                         *)
C15_Witness ==
  /\ main_pc = "exported"
  /\ include_metadata
  /\ \E i, j \in 1..Len(results) :
       /\ results[i].error_message = <<"Job processing exceeded timeout of", 1, "seconds">>
       /\ df.rows[i]["SiteOnForm"] = ""
       /\ results[j].processing_status = "success"
       /\ df.rows[j]["SiteOnForm"] = "value"

(* C16 as claimed: the header of the exported table is the base columns    *)
(* followed, when metadata columns are enabled, by s3_uri,                 *)
(* processing_status, error_message and output_s3_uri, for every result    *)
(* list.                                                                   *)
C16_FixedHeader ==
  Exported =>
    df.columns =
      <<"document", "SiteOnForm", "NameOnForm", "LogoOnForm", "EmailOnForm",
        "PhoneOnForm", "AddressOnForm", "SignatureOnForm", "LOB", "State",
        "Language">>
      \o (IF include_metadata
          THEN <<"s3_uri", "processing_status", "error_message", "output_s3_uri">>
          ELSE <<>>)

(* The successes of a result list, counted row by row. *)
RECURSIVE CountSuccess(_)
CountSuccess(rs) ==
  IF rs = <<>> THEN 0
  ELSE (IF Head(rs).processing_status = "success" THEN 1 ELSE 0) + CountSuccess(Tail(rs))

(* p tenths of a percent is count * 100 / total to the nearest tenth. *)
NearestTenth(p, count, total) ==
  /\ 2 * (p * total - 1000 * count) <= total
  /\ 2 * (1000 * count - p * total) <= total

(* C20: the summary has total = number of rows, successful = number of     *)
(* rows with status success, failed = total - successful, and each         *)
(* percentage it reports is count * 100 / total to one decimal; it reports *)
(* both percentages whenever there is a row.                               *)
C20_SummaryCounts ==
  Exported =>
    /\ summary.total = Len(results)
    /\ summary.successful = CountSuccess(results)
    /\ summary.failed = summary.total - summary.successful
    /\ Len(results) > 0 => Len(summary.percents) = 2
    /\ summary.percents # <<>> =>
         /\ NearestTenth(summary.percents[1], summary.successful, summary.total)
         /\ NearestTenth(summary.percents[2], summary.failed, summary.total)

(* C20 witness: 10 rows with 7 successes report 70.0 and 30.0. *)
C20_Witness ==
  /\ main_pc = "exported"
  /\ summary.total = 10
  /\ summary.successful = 7
  /\ summary.percents = <<700, 300>>

(* The characters of the elements that have any, in order (a nested list   *)
(* gives those of its elements).                                           *)
RECURSIVE Flat(_)
Flat(items) ==
  IF items = <<>> THEN <<>>
  ELSE (IF Head(items).t = "list" THEN Flat(Head(items).items) ELSE Head(items).s)
       \o Flat(Tail(items))

(* A text without leading, trailing or doubled separator: every "," is     *)
(* followed (after the rule's blank, if any) by a character of an element, *)
(* and blanks occur only behind a ",".                                     *)
CleanlyJoined(out, blank) ==
  /\ out # <<>> => out[1] \notin {",", " "} /\ out[Len(out)] \notin {",", " "}
  /\ \A i \in 1..Len(out) :
       /\ out[i] = "," =>
            IF blank THEN /\ i + 2 <= Len(out)
                          /\ out[i + 1] = " "
                          /\ out[i + 2] \notin {",", " "}
            ELSE i + 1 <= Len(out) /\ out[i + 1] \notin {",", " "}
       /\ out[i] = " " => blank /\ i > 1 /\ out[i - 1] = ","

(* C17: the row build_csv writes and the fields extract_results_from_      *)
(* response copies have exactly the schema fields as keys (none missing,   *)
(* none from outside the schema); a schema field absent from the record    *)
(* has the empty string as its value.                                      *)
C17_RowHasExactlySchemaColumns ==
  LET schema == {"SiteOnForm", "NameOnForm", "LogoOnForm", "EmailOnForm",
                 "PhoneOnForm", "AddressOnForm", "SignatureOnForm", "LOB",
                 "State", "Language"}
  IN  /\ DOMAIN csv_row # {} =>
           /\ DOMAIN csv_row = schema
           /\ \A f \in schema \ DOMAIN record : csv_row[f] = <<>>
      /\ DOMAIN extracted # {} =>
           /\ DOMAIN extracted = schema
           /\ \A f \in schema \ DOMAIN record : extracted[f] = [t |-> "str", s |-> <<>>, items |-> <<>>]
           /\ \A f \in schema \cap DOMAIN record : extracted[f] = record[f]

(* C17 witness: a record with one schema field and a key outside the       *)
(* schema was written and extracted.                                       *)
C17_Witness ==
  /\ DOMAIN record = {"State", "Unlisted"}
  /\ DOMAIN csv_row # {}
  /\ DOMAIN extracted # {}
  /\ csv_row["State"] = <<"a">>
  /\ csv_row["SiteOnForm"] = <<>>

(* C18: the normalized text of a list-valued field holds the characters of *)
(* the non-empty elements in order, joined by ", " (by "," for LogoOnForm) *)
(* without leading, trailing or doubled separator; a list of only empty    *)
(* and null elements gives the empty text; ["a", "", "b"] gives "a, b",    *)
(* and "a,b" for LogoOnForm.                                               *)
C18_ListJoinDropsEmpty ==
  \A k \in {"SiteOnForm", "LogoOnForm"} :
    (/\ DOMAIN csv_row # {}
     /\ DOMAIN record = {k}
     /\ record[k].t = "list")
      => LET out == csv_row[k]
             items == record[k].items
         IN  /\ SelectSeq(out, LAMBDA c : c \notin {",", " "}) = Flat(items)
             /\ CleanlyJoined(out, k # "LogoOnForm")
             /\ Flat(items) = <<>> => out = <<>>
             /\ (Len(items) = 3 /\ Flat(items) = <<"a", "b">> /\ items[2].s = <<>>
                  /\ items[2].t = "str" /\ items[1].t = "str")
                  => out = (IF k = "LogoOnForm" THEN <<"a", ",", "b">>
                            ELSE <<"a", ",", " ", "b">>)

(* C18 witness: LogoOnForm = ["a", "", "b"] was written as "a,b". *)
C18_Witness ==
  /\ DOMAIN record = {"LogoOnForm"}
  /\ Len(record["LogoOnForm"].items) = 3
  /\ record["LogoOnForm"].items[2] = [t |-> "str", s |-> <<>>, items |-> <<>>]
  /\ DOMAIN csv_row # {}
  /\ csv_row["LogoOnForm"] = <<"a", ",", "b">>

(* C21 as claimed: the export of a results list without rows completes     *)
(* and reports a success percentage of 0.                                  *)
C21_EmptyExportCompletes ==
  (Exported /\ Len(results) = 0)
    => /\ main_pc = "exported"
       /\ Len(summary.percents) = 2
       /\ summary.percents[1] = 0

(* C23 as claimed: under a configuration with batch_size <= 0 or with      *)
(* poll_interval >= timeout no document is submitted and no status query   *)
(* is issued.                                                              *)
C23_BadConfigSubmitsNothing ==
  (batch_size <= 0 \/ poll_interval >= timeout)
    => \A d \in Docs :
         /\ submitted[d] = "<none>"
         /\ lastResp[d].kind = "<none>"

(* The worker of d detects its timeout in this step. *)
TimeoutDetected(d) ==
  /\ pc[d] = "check"
  /\ pc'[d] = "done"

(* The state of the worker of d. *)
WorkerState(d) == <<pc[d], elapsed[d], submitted[d], lastResp[d], future[d]>>

(* C25: a document times out only when the time elapsed in its own poll    *)
(* loop exceeds the timeout; the step that times it out leaves every other *)
(* document's worker as it is, and every other worker that is under way    *)
(* can still take its next step.                                           *)
C25_TimeoutPerDocument ==
  /\ [][\A d \in Docs :
          TimeoutDetected(d)
            => /\ elapsed[d] > timeout
               /\ \A e \in Docs \ {d} : WorkerState(e)' = WorkerState(e)]_vars
  /\ [](\A d, e \in Docs :
          (/\ d # e
           /\ Finished(d) /\ IsTimeoutRow(CollectedRow(d))
           /\ pc[e] \in {"invoke", "check", "query", "sleep"})
            => ENABLED (\/ InvokeDocumentProcessing(e) \/ TimeoutCheck(e)
                        \/ StatusQuery(e) \/ Sleep(e)))

(* C25 witness: one document has timed out while another is still in its   *)
(* poll loop with less elapsed time than the timeout.                      *)
C25_Witness ==
  \E d, e \in Docs :
    /\ Finished(d) /\ IsTimeoutRow(CollectedRow(d))
    /\ pc[e] \in {"check", "query", "sleep"}
    /\ elapsed[e] <= timeout

(* C26: the submission call of a document is issued once: its answer,      *)
(* once there, never changes; no worker stands before the submission call  *)
(* with an answer already there; a finished document has one; and status   *)
(* queries are answered only for a submission that returned a handle.      *)
C26_OneSubmissionPerDocument ==
  /\ [](\A d \in Docs :
          /\ pc[d] \in {"queued", "invoke"} <=> submitted[d] = "<none>"
          /\ lastResp[d].kind # "<none>" => submitted[d] = "ok")
  /\ [][\A d \in Docs :
          /\ submitted[d] # "<none>" => submitted'[d] = submitted[d]
          /\ submitted'[d] # submitted[d] => pc[d] = "invoke" /\ pc'[d] # "invoke"]_vars

(* C26 witness: a document whose submission failed has its error row       *)
(* collected, with the submission's answer still the one of the failure.   *)
C26_Witness ==
  \E d \in Docs :
    /\ pc[d] = "collected"
    /\ submitted[d] = "ClientError"
    /\ lastResp[d].kind = "<none>"

(* C27: results only grows, one row at a time and at its end: a step that  *)
(* changes it appends the row of one finished document and changes nothing *)
(* else of results; and a step changes the worker state of at most one     *)
(* document.                                                               *)
C27_AppendOnlyCollection ==
  /\ [][results' # results
          => /\ Len(results') = Len(results) + 1
             /\ SubSeq(results', 1, Len(results)) = results
             /\ \E d \in Docs :
                  /\ pc[d] = "done" /\ pc'[d] = "collected"
                  /\ results'[Len(results')] = CollectedRow(d)]_vars
  /\ [][\A d, e \in Docs :
          (WorkerState(d)' # WorkerState(d) /\ WorkerState(e)' # WorkerState(e))
            => d = e]_vars

(* C27 witness: the rows of two documents were appended one after the      *)
(* other and the collection loop has not ended yet.                        *)
C27_Witness ==
  /\ Len(results) = 2
  /\ results[1].document # results[2].document
  /\ main_pc = "collecting"

C30_RowsInOutcomeOrder ==
  Exported =>
    /\ Len(df.rows) = Len(results)
    /\ \A i \in 1..Len(results) :
         /\ df.rows[i]["document"] = results[i].document
         /\ include_metadata =>
              /\ df.rows[i]["s3_uri"] = results[i].s3_uri
              /\ df.rows[i]["processing_status"] = results[i].processing_status

(* C30 witness: the outcome of document 2 was received first and is an     *)
(* error, the one of document 1 came second and is a success; the table    *)
(* has them in that order.                                                 *)
C30_Witness ==
  /\ main_pc = "exported"
  /\ Len(results) = 2
  /\ results[1].document = 2 /\ results[1].processing_status = "error"
  /\ results[2].document = 1 /\ results[2].processing_status = "success"
  /\ df.rows[1]["document"] = 2
  /\ df.rows[2]["document"] = 1

(* C22 as claimed: for a listing of one well-formed .json object and one   *)
(* malformed .json artifact, in either order, build_csv completes and      *)
(* writes exactly one row, the one of the well-formed object.              *)
C22_MalformedArtifactSkipped ==
  (/\ build_pc # "build_csv"
   /\ Len(listing) = 2
   /\ \A i \in 1..2 : listing[i].suffix = ".json"
   /\ \E i, j \in 1..2 :
        /\ listing[i].texts[1].t = "object"
        /\ listing[j].texts[1].t = "malformed")
    => /\ build_pc = "returned"
       /\ Len(csv_file.rows) = 1
       /\ \E i \in 1..2 :
            /\ listing[i].texts[1].t = "object"
            /\ csv_file.rows[1]["SiteOnForm"] = listing[i].texts[1].obj["SiteOnForm"].s

(* C24: safe_stop returns normally when the stop call succeeds or is       *)
(* rejected with ConflictException or ValidationException (the job is in   *)
(* no state to be stopped), and raises on every other ClientError and on   *)
(* every other exception.                                                  *)
C24_SafeStopToleratesTerminalJob ==
  stop_result # "<none>" =>
    /\ stop_answer \in {"ok", "ConflictException", "ValidationException"}
         => stop_result = "returned"
    /\ stop_answer \notin {"ok", "ConflictException", "ValidationException"}
         => stop_result = "raised"

(* C24 witness: the job had ended in SUCCEEDED, the stop call was rejected *)
(* with ConflictException, and safe_stop returned.                         *)
C24_Witness ==
  /\ job_pc = "returned"
  /\ job_status = "SUCCEEDED"
  /\ stop_answer = "ConflictException"
  /\ stop_result = "returned"

(* C28 as claimed: the poll loop of _wait_for_completion, once entered,    *)
(* reaches an end (a return or a raise), whatever statuses the job         *)
(* reports.                                                                *)
C28_JobLoopTerminates ==
  (job_pc = "query") ~> (job_pc \in {"returned", "RuntimeError", "ClientError"})

(* ---------------- C31: mixed .jsonl and .json artifacts ----------------- *)
(* The JSON texts of one artifact that may become a row: the lines of a    *)
(* .jsonl, the items of a .json array, the one document of another .json;  *)
(* nothing for a key with another suffix.                                  *)
RowCandidates(a) ==
  IF a.suffix = ".jsonl" THEN a.texts
  ELSE IF a.suffix = ".json"
       THEN (IF a.texts[1].t = "array" THEN a.texts[1].items ELSE a.texts)
  ELSE <<>>

RECURSIVE CandidatesInListingOrder(_)
CandidatesInListingOrder(objects) ==
  IF objects = <<>> THEN <<>>
  ELSE RowCandidates(Head(objects)) \o CandidatesInListingOrder(Tail(objects))

IsObjectText(text) == text.t = "object"

ObjectsInListingOrder ==
  SelectSeq(CandidatesInListingOrder(listing), IsObjectText)

WellFormedListing ==
  \A i \in 1..Len(listing) : \A j \in 1..Len(listing[i].texts) :
    listing[i].texts[j].t # "malformed"

(* C31: over a prefix of well-formed .jsonl and .json artifacts, build_csv *)
(* returns and the file has exactly one row per JSON object on a line of a *)
(* .jsonl, per object item of a .json array and per top-level .json        *)
(* object, in listing order; blank lines, non-object lines and items and   *)
(* keys with another suffix add no row.                                    *)
C31_MixedArtifactsOneRowPerObject ==
  (build_pc # "build_csv" /\ WellFormedListing) =>
    /\ build_pc = "returned"
    /\ Len(csv_file.rows) = Len(ObjectsInListingOrder)
    /\ \A i \in 1..Len(csv_file.rows) :
         csv_file.rows[i] =
           BuildCsvRow(NormalizeRecord(ObjectsInListingOrder[i].obj), fieldnames)

(* A .jsonl with a blank line and an object, then a .json array with two   *)
(* objects around a scalar: three rows, "1", "1", "2".                     *)
C31_Witness ==
  /\ build_pc = "returned"
  /\ listing = <<Artifact(".jsonl", <<JBlank, JObject("1")>>),
                 Artifact(".json", <<JArray(<<JObject("1"), JScalar, JObject("2")>>)>>)>>
  /\ Len(csv_file.rows) = 3
  /\ csv_file.rows[3] = BuildCsvRow(NormalizeRecord(JObject("2").obj), fieldnames)

(* ------------- interruption of the batch (process_documents.py) -------- *)
(* The jobs whose handle a worker holds: submitted, not yet finished.      *)
InFlight == {d \in Docs : pc[d] \in {"check", "query", "sleep"}}

(* A KeyboardInterrupt reaches the main thread inside the as_completed     *)
(* loop of process_documents_batch (lines 141-155): no clause of the loop  *)
(* or of main catches it, and no stop call is made.                        *)
KeyboardInterrupt ==
  /\ main_pc = "collecting"
  /\ main_pc' = "KeyboardInterrupt"
  /\ component' = [component EXCEPT !.known_handles = InFlight]
  /\ UNCHANGED <<config, worker, results, export, aggregator, readback, jobrunner>>

(* The exception leaves the with block of line 127: the executor's         *)
(* __exit__ is shutdown(wait=True), under which the pool threads go on to  *)
(* take the queued work items.                                             *)
DrainWorker(d) ==
  /\ main_pc = "KeyboardInterrupt"
  /\ pc[d] = "queued"
  /\ \A e \in Docs : e < d => pc[e] # "queued"
  /\ WorkerAvailable
  /\ pc' = [pc EXCEPT ![d] = "invoke"]
  /\ UNCHANGED <<config, export, aggregator, readback, jobrunner, component,
                 elapsed, submitted, lastResp, future, results, main_pc>>

(* shutdown(wait=True) has joined every pool thread; the KeyboardInterrupt *)
(* leaves process_documents_batch and main: the results list is dropped    *)
(* with the frame, nothing is exported.                                    *)
InterruptExit ==
  /\ main_pc = "KeyboardInterrupt"
  /\ \A d \in Docs : pc[d] \in {"done", "collected"}
  /\ main_pc' = "Traceback"
  /\ UNCHANGED <<config, worker, results, export, aggregator, readback, jobrunner,
                 component>>

CancelNext ==
  \/ Next
  \/ KeyboardInterrupt
  \/ \E d \in Docs : DrainWorker(d)
  \/ InterruptExit

CancelSpec == Init /\ [][CancelNext]_vars

(* C32 as claimed: once the run was interrupted, the collected outcomes    *)
(* stay as they are, and by the time the run has ended a stop request was  *)
(* sent for every job that was in flight with a known handle.              *)
C32_CancelStopsKnownJobs ==
  [][/\ (main_pc # "collecting" => results' = results)
     /\ (main_pc' = "Traceback" => known_handles' \subseteq stop_requests')]_vars

(* ------- one poll loop with instantaneous remote calls (utils.py) ------ *)
(* wait_for_job_completion was called with poll interval and timeout from  *)
(* the configuration; start_time = time.time() was just taken (line 118).  *)
PollInit ==
  /\ documents = <<>>
  /\ batch_size = 1
  /\ poll_interval \in 1..MaxPollInterval
  /\ timeout \in 1..MaxPollTimeout
  /\ pc = <<>>
  /\ elapsed = <<>>
  /\ submitted = <<>>
  /\ lastResp = <<>>
  /\ future = <<>>
  /\ results = <<>>
  /\ main_pc = "wait_for_job_completion"
  /\ ExportNotRun
  /\ AggregatorNotRun
  /\ ReadBackNotRun
  /\ JobRunnerNotRun
  /\ component = [IdleComponent EXCEPT !.loop_pc = "check"]

(* Lines 121-124: the timeout test at the top of the loop. *)
LoopCheck ==
  /\ loop_pc = "check"
  /\ component' = [component EXCEPT !.loop_pc =
        IF TimedOut(loop_elapsed, timeout) THEN "TimeoutError" ELSE "query"]
  /\ UNCHANGED <<config, worker, results, main_pc, export, aggregator, readback, jobrunner>>

(* Lines 126-146: one status query that takes no time, and the branch on   *)
(* its answer.                                                             *)
LoopQuery ==
  /\ loop_pc = "query"
  /\ \E resp \in QueryAnswers :
       component' = [component EXCEPT
         !.loop_queries = loop_queries + 1,
         !.loop_pc = CASE PollDecision(resp) = "return" -> "returned"
                       [] PollDecision(resp) \in {"failed", "raise"} -> "Exception"
                       [] OTHER -> "sleep"]
  /\ UNCHANGED <<config, worker, results, main_pc, export, aggregator, readback, jobrunner>>

(* time.sleep(poll_interval), lines 139, 142 and 146. *)
LoopSleep ==
  /\ loop_pc = "sleep"
  /\ component' = [component EXCEPT
       !.loop_elapsed = loop_elapsed + SleepAdvance(poll_interval),
       !.loop_pc = "check"]
  /\ UNCHANGED <<config, worker, results, main_pc, export, aggregator, readback, jobrunner>>

PollNext == LoopCheck \/ LoopQuery \/ LoopSleep

PollSpec == PollInit /\ [][PollNext]_vars

(* C33: with instantaneous remote calls, a poll loop with poll interval    *)
(* p > 0 and timeout T issues at most floor(T/p) + 1 status queries; a     *)
(* loop that is still polling has not run longer than T, and the           *)
(* TimeoutError of a job that never became terminal is raised no later     *)
(* than T + p after the loop started.                                      *)
C33_QueryBoundAndTimeoutDelay ==
  /\ loop_queries <= (timeout \div poll_interval) + 1
  /\ (loop_pc \in {"query", "sleep"} => loop_elapsed <= timeout)
  /\ (loop_pc = "TimeoutError" =>
        /\ loop_elapsed > timeout
        /\ loop_elapsed <= timeout + poll_interval)

(* p = 2, T = 5: three queries at 0, 2 and 4, the timeout at 6. *)
C33_Witness ==
  /\ poll_interval = 2
  /\ timeout = 5
  /\ loop_pc = "TimeoutError"
  /\ loop_queries = 3
  /\ loop_elapsed = 6

(* ---------------- C34: JobRunner._wait_for_completion ------------------- *)
(* C34: _wait_for_completion returns only when the status it read is       *)
(* SUCCEEDED; on FAILED or STOPPED it raises the RuntimeError that carries *)
(* that status; on every other status it sleeps and then queries again;    *)
(* once a terminal status was read, no further query changes it.           *)
C34_WaitReturnsOnlySucceeded ==
  /\ [](/\ (job_pc = "returned" => job_status = "SUCCEEDED")
        /\ (job_status = "SUCCEEDED" => job_pc = "returned")
        /\ (job_status \in {"FAILED", "STOPPED"} => job_pc = "RuntimeError")
        /\ (job_status \in JobStatuses \ TERMINAL_STATES =>
              job_pc \in {"sleep", "query", "ClientError"})
        /\ (job_pc = "sleep" => job_status \in JobStatuses \ TERMINAL_STATES))
  /\ [][/\ (job_pc = "sleep" /\ job_pc' # job_pc => job_pc' = "query")
        /\ (job_status \in TERMINAL_STATES =>
              job_status' = job_status /\ job_pc' = job_pc)]_vars

(* The job was read as FAILED and the wait raised. *)
C34_Witness ==
  /\ job_pc = "RuntimeError"
  /\ job_status = "FAILED"
  /\ job_identifier \notin {NoValue, Absent}

(* ------------- C35: the outcomes of process_single_document ------------- *)
(* C35: every dictionary process_single_document returns has               *)
(* processing_status 'success' or 'error'; an 'error' one has an           *)
(* error_message, a 'success' one has none.                                *)
C35_OutcomeStatusAndMessage ==
  \A d \in Docs :
    future[d].state = "result" =>
      /\ future[d].row.processing_status \in {"success", "error"}
      /\ (future[d].row.processing_status = "error" =>
            future[d].row.error_message # NoText)
      /\ (future[d].row.processing_status = "success" =>
            future[d].row.error_message = NoText)

(* One worker returned a success dictionary and another an error one. *)
C35_Witness ==
  \E d, e \in Docs :
    /\ future[d].state = "result"
    /\ future[d].row.processing_status = "success"
    /\ future[e].state = "result"
    /\ future[e].row.processing_status = "error"
    /\ future[e].row.error_message # NoText

(* -------- extract_results_from_response on its own (utils.py) ---------- *)
(* The responses the function is given: with or without 'output' in any of *)
(* its shapes, with or without an output location.                         *)
ExtractResponses ==
  {Response(st, Absent, out, uri) :
     st \in {"SUCCESS", "FAILED"}, out \in OutputShapes \cup {Absent},
     uri \in {Absent, "s3://out"}}

ExtractInit ==
  /\ BatchNotRun
  /\ main_pc = "extract_results_from_response"
  /\ ExportNotRun
  /\ AggregatorNotRun
  /\ ReadBackNotRun
  /\ JobRunnerNotRun
  /\ \E resp \in ExtractResponses, key \in 1..MaxDocs :
       component = [IdleComponent EXCEPT !.response = resp, !.document_key = key]

(* One call of extract_results_from_response(response, document_key). *)
ExtractCall ==
  /\ extract_end = NoValue
  /\ LET end == ExtractResultsFromResponse(response, document_key)
     IN  component' = [component EXCEPT
           !.extract_end = IF end.raised THEN "raised" ELSE "returned",
           !.extract_row = end.row]
  /\ UNCHANGED <<config, worker, results, main_pc, export, aggregator, readback, jobrunner>>

ExtractSpec == ExtractInit /\ [][ExtractCall]_vars

(* C36: extract_results_from_response never raises; for a successful job   *)
(* response whose output is a mapping, or a string holding the JSON text   *)
(* of one, it returns a success dictionary for the document; for one whose *)
(* output is a string that is no JSON, or any other value that is no       *)
(* mapping, it returns an error dictionary for the document.               *)
C36_ExtractNeverRaises ==
  extract_end # NoValue =>
    /\ extract_end = "returned"
    /\ extract_row.document = document_key
    /\ (response.status = "SUCCESS" =>
          /\ (response.output \in {"mapping", "mapping_string"} =>
                /\ extract_row.processing_status = "success"
                /\ extract_row.fields = "payload")
          /\ (response.output \in {"bad_string", "list_string", "list", "null"} =>
                /\ extract_row.processing_status = "error"
                /\ extract_row.error_message # NoText
                /\ extract_row.fields = Absent))

(* A successful response whose output is a string that is no JSON came     *)
(* back as an error dictionary.                                            *)
C36_Witness ==
  /\ extract_end = "returned"
  /\ response.status = "SUCCESS"
  /\ response.output = "bad_string"
  /\ extract_row.processing_status = "error"
  /\ extract_row.document = document_key

(* ------------------- retry_with_backoff (utils.py) ---------------------- *)
RetryInit ==
  /\ BatchNotRun
  /\ main_pc = "retry_with_backoff"
  /\ ExportNotRun
  /\ AggregatorNotRun
  /\ ReadBackNotRun
  /\ JobRunnerNotRun
  /\ \E m \in 0..MaxRetries, d \in 1..MaxDelay :
       component = [IdleComponent EXCEPT
                      !.max_retries = m, !.delay = d, !.retry_pc = "for"]

(* A backoff that grows by delay with every attempt. *)
WaitTimeLinear(d, k) == d * (k + 1)

(* Line 224: wait_time = delay * (2 ** attempt) *)
WaitTime(d, k) == d * (2 ^ k)

(* Line 217, for attempt in range(max_retries): the next iteration, or the *)
(* end of the loop and of the function, which then returns None.           *)
RetryFor ==
  /\ retry_pc = "for"
  /\ component' =
       IF attempt < max_retries
       THEN [component EXCEPT !.retry_pc = "call"]
       ELSE [component EXCEPT !.retry_pc = "returned",
                              !.retry_end = CallOutcome("None", 0)]
  /\ UNCHANGED <<config, worker, results, main_pc, export, aggregator, readback, jobrunner>>

(* Lines 218-223: the call of func; its result is returned, its exception  *)
(* is raised again in the last iteration and swallowed in the others.      *)
RetryCall ==
  /\ retry_pc = "call"
  /\ \/ component' = [component EXCEPT
          !.calls = calls + 1,
          !.retry_pc = "returned",
          !.retry_end = CallOutcome("result", attempt)]
     \/ component' =
          IF attempt = max_retries - 1
          THEN [component EXCEPT
                  !.calls = calls + 1,
                  !.retry_pc = "raised",
                  !.retry_end = CallOutcome("exception", attempt)]
          ELSE [component EXCEPT !.calls = calls + 1, !.retry_pc = "sleep"]
  /\ UNCHANGED <<config, worker, results, main_pc, export, aggregator, readback, jobrunner>>

(* Lines 224-226: the wait before the next iteration. *)
RetrySleep ==
  /\ retry_pc = "sleep"
  /\ component' = [component EXCEPT
       !.sleeps = Append(sleeps, WaitTime(delay, attempt)),
       !.attempt = attempt + 1,
       !.retry_pc = "for"]
  /\ UNCHANGED <<config, worker, results, main_pc, export, aggregator, readback, jobrunner>>

RetryNext == RetryFor \/ RetryCall \/ RetrySleep

RetrySpec == RetryInit /\ [][RetryNext]_vars

(* C37: retry_with_backoff calls func at most max_retries times; it        *)
(* returns the result of the first call that succeeds and calls no more;   *)
(* when all max_retries calls fail it raises the exception of the last     *)
(* one; after the failed attempt k it sleeps delay * 2^k, and it does not  *)
(* sleep after the last failed attempt; with max_retries = 0 it makes no   *)
(* call and returns None.                                                  *)
C37_RetryWithBackoff ==
  /\ calls <= max_retries
  /\ \A k \in 1..Len(sleeps) : sleeps[k] = delay * 2 ^ (k - 1)
  /\ (retry_end.kind = "result" =>
        /\ retry_pc = "returned"
        /\ calls = retry_end.of + 1
        /\ Len(sleeps) = retry_end.of)
  /\ (retry_pc = "raised" =>
        /\ calls = max_retries
        /\ retry_end = CallOutcome("exception", max_retries - 1)
        /\ Len(sleeps) = max_retries - 1)
  /\ (retry_end.kind = "None" =>
        /\ max_retries = 0
        /\ calls = 0
        /\ sleeps = <<>>)
  /\ (max_retries = 0 /\ retry_pc # "for" =>
        retry_pc = "returned" /\ retry_end.kind = "None")

(* Three attempts with delay 2: two failures and sleeps of 2 and 4, then   *)
(* the third call fails and its exception is raised without a sleep.       *)
C37_Witness ==
  /\ max_retries = 3
  /\ delay = 2
  /\ retry_pc = "raised"
  /\ calls = 3
  /\ sleeps = <<2, 4>>

(* ------------- the entry point (process_documents.py main) ------------- *)
(* main has listed the documents under the input prefix (line 325); the    *)
(* pool has no work item yet.                                              *)
EntryInit ==
  /\ \E n \in 0..MaxListed : documents = [i \in 1..n |-> <<"docs", i>>]
  /\ batch_size \in 1..MaxDocs
  /\ poll_interval \in 1..MaxTimeout
  /\ timeout \in 1..MaxTimeout
  /\ pc = [d \in Docs |-> "queued"]
  /\ elapsed = [d \in Docs |-> 0]
  /\ submitted = [d \in Docs |-> NoValue]
  /\ lastResp = [d \in Docs |-> NoResponse]
  /\ future = [d \in Docs |-> PendingFuture]
  /\ results = <<>>
  /\ main_pc = "main"
  /\ ExportNotRun
  /\ AggregatorNotRun
  /\ ReadBackNotRun
  /\ JobRunnerNotRun
  /\ \E flag \in BOOLEAN : component = [IdleComponent EXCEPT !.dry_run = flag]

(* An entry point that processes the documents of a dry run as well. *)
MainListedIgnoresDryRun ==
  /\ main_pc = "main"
  /\ IF Len(documents) = 0
     THEN main_pc' = "exit" /\ component' = [component EXCEPT !.exit_status = 0]
     ELSE main_pc' = "collecting" /\ UNCHANGED component
  /\ UNCHANGED <<config, worker, results, export, aggregator, readback, jobrunner>>

(* Lines 333-355: the two early returns, or the call of                    *)
(* process_documents_batch.                                                *)
MainListed ==
  /\ main_pc = "main"
  /\ IF Len(documents) = 0
     THEN main_pc' = "exit" /\ component' = [component EXCEPT !.exit_status = 0]
     ELSE IF dry_run
          THEN main_pc' = "exit" /\ component' = [component EXCEPT !.exit_status = 0]
          ELSE main_pc' = "collecting" /\ UNCHANGED component
  /\ UNCHANGED <<config, worker, results, export, aggregator, readback, jobrunner>>

(* Lines 367-372: export_results_to_csv on what the batch returned, with   *)
(* the include_metadata flag of the configuration.                         *)
MainExport ==
  /\ main_pc = "returned"
  /\ \E flag \in BOOLEAN :
       /\ include_metadata' = flag
       /\ df' = ExportTable(results, flag)
  /\ summary' = SummaryOf(results)
  /\ main_pc' = IF Len(results) = 0 THEN "ZeroDivisionError" ELSE "exported"
  /\ UNCHANGED <<config, worker, results, aggregator, readback, jobrunner, component>>

(* Lines 375-390: the upload, which raises its ClientError again, and the  *)
(* return of 0.                                                            *)
MainUpload ==
  /\ main_pc = "exported"
  /\ \/ main_pc' = "exit" /\ component' = [component EXCEPT !.exit_status = 0]
     \/ main_pc' = "ClientError" /\ UNCHANGED component
  /\ UNCHANGED <<config, worker, results, export, aggregator, readback, jobrunner>>

EntryNext ==
  \/ MainListed
  \/ Next
  \/ MainExport
  \/ MainUpload

EntrySpec == EntryInit /\ [][EntryNext]_vars

(* C38: with an empty document list or with --dry-run, main makes no       *)
(* submission call and no status query and returns 0; so whenever main     *)
(* has called export_results_to_csv, the results held at least one row     *)
(* and the summary did not divide by zero.                                 *)
C38_EarlyExitsSubmitNothing ==
  /\ (Len(documents) = 0 \/ dry_run) =>
        /\ main_pc \in {"main", "exit"}
        /\ (main_pc = "exit" => exit_status = 0)
        /\ \A d \in Docs : /\ pc[d] = "queued"
                           /\ submitted[d] = NoValue
                           /\ lastResp[d] = NoResponse
        /\ df = NoTable
        /\ summary = NoSummary
  /\ main_pc # "ZeroDivisionError"
  /\ (main_pc \in {"exported", "ClientError"} \/ summary # NoSummary) =>
        /\ Len(results) >= 1
        /\ summary.total >= 1

(* A dry run over a listed document ended with 0 and nothing was           *)
(* submitted.                                                              *)
C38_Witness ==
  /\ dry_run
  /\ Len(documents) = 1
  /\ main_pc = "exit"
  /\ exit_status = 0
  /\ \A d \in Docs : submitted[d] = NoValue

(* ---------------- BlueprintManager (blueprint.py) ----------------------- *)
(* The payloads _build_blueprint_payload makes of two configurations.      *)
Payloads == {"P1", "P2"}

(* A blueprint document as the service holds it under the "blueprint" key  *)
(* of the metadata: a string, a mapping, or nothing.                       *)
Document(type, of) == [type |-> type, of |-> of]

(* json.dumps(blueprint_payload): the JSON text of the payload. *)
JsonDumps(p) == Document("str", p)

MalformedDocument == Document("str", "malformed")

NoDocument == Document("NoneType", Absent)

(* json.loads of a stored string. *)
LoadDocument(doc) ==
  IF doc.of = "malformed" THEN Document("JSONDecodeError", Absent)
  ELSE Document("dict", doc.of)

(* A comparison that takes the JSON text for the document. *)
BlueprintMatchesUnparsed(metadata, p) == metadata.blueprint = Document("dict", p)

(* _blueprint_matches, lines 55-62. *)
BlueprintMatches(metadata, p) ==
  LET existing_document == metadata.blueprint
  IN  IF existing_document.type = "str"
      THEN (IF LoadDocument(existing_document).type = "JSONDecodeError"
            THEN FALSE
            ELSE LoadDocument(existing_document) = Document("dict", p))
      ELSE existing_document = Document("dict", p)

(* The metadata the service may hold before the first call. *)
StoredBlueprints ==
  {[blueprint |-> doc] :
     doc \in {JsonDumps(p) : p \in Payloads} \cup {Document("dict", p) : p \in Payloads}
             \cup {MalformedDocument, NoDocument}}

BlueprintInit ==
  /\ BatchNotRun
  /\ main_pc = "ensure_blueprint"
  /\ ExportNotRun
  /\ AggregatorNotRun
  /\ ReadBackNotRun
  /\ JobRunnerNotRun
  /\ \E store \in StoredBlueprints \cup {NotFound} :
       component = [IdleComponent EXCEPT !.blueprint_store = store]

(* ensure_blueprint(config), lines 19-42, against a service that answers   *)
(* get_blueprint with {"blueprint": metadata} and keeps what create and    *)
(* update write; any of the calls may fail with a ClientError.             *)
EnsureBlueprint ==
  /\ invocations < MaxInvocations
  /\ \E p \in Payloads :
       LET call == [component EXCEPT !.invocations = invocations + 1, !.payload = p]
       IN  \/ component' = [call EXCEPT !.mutations = <<>>,
                                        !.blueprint_end = "ClientError"]
           \/ /\ blueprint_store = NotFound
              /\ \/ component' = [call EXCEPT
                      !.mutations = <<"create_blueprint">>,
                      !.blueprint_store = [blueprint |-> JsonDumps(p)],
                      !.blueprint_end = "returned"]
                 \/ component' = [call EXCEPT
                      !.mutations = <<"create_blueprint">>,
                      !.blueprint_end = "ClientError"]
           \/ /\ blueprint_store # NotFound
              /\ ~BlueprintMatches(blueprint_store, p)
              /\ \/ component' = [call EXCEPT
                      !.mutations = <<"update_blueprint">>,
                      !.blueprint_store = [blueprint |-> JsonDumps(p)],
                      !.blueprint_end = "returned"]
                 \/ component' = [call EXCEPT
                      !.mutations = <<"update_blueprint">>,
                      !.blueprint_end = "ClientError"]
           \/ /\ blueprint_store # NotFound
              /\ BlueprintMatches(blueprint_store, p)
              /\ component' = [call EXCEPT !.mutations = <<>>,
                                           !.blueprint_end = "returned"]
  /\ UNCHANGED <<config, worker, results, main_pc, export, aggregator, readback, jobrunner>>

BlueprintSpec == BlueprintInit /\ [][EnsureBlueprint]_vars

(* The payload a stored document stands for, if any. *)
DocumentPayload(store) ==
  IF store.blueprint.type \in {"str", "dict"} /\ store.blueprint.of \in Payloads
  THEN store.blueprint.of
  ELSE Absent

(* C40: one ensure_blueprint makes at most one mutating call: a create     *)
(* only when the service has no blueprint of that name, an update only     *)
(* when the stored document differs from the payload, none when it is the  *)
(* payload; against a service that keeps what is written, an invocation    *)
(* that follows a completed one with the same configuration makes no       *)
(* mutating call.                                                          *)
C40_AtMostOneMutatingCall ==
  [][invocations' = invocations + 1 =>
       /\ Len(mutations') <= 1
       /\ (mutations' = <<"create_blueprint">> => blueprint_store = NotFound)
       /\ (mutations' = <<"update_blueprint">> =>
             /\ blueprint_store # NotFound
             /\ DocumentPayload(blueprint_store) # payload')
       /\ (blueprint_store # NotFound /\ DocumentPayload(blueprint_store) = payload' =>
             mutations' = <<>>)
       /\ (invocations >= 1 /\ blueprint_end = "returned" /\ payload' = payload =>
             /\ mutations' = <<>>
             /\ blueprint_store' = blueprint_store)]_vars

(* The second invocation with the configuration of the first, which had    *)
(* created the blueprint, returned without a mutating call.                *)
C40_Witness ==
  /\ invocations = 2
  /\ blueprint_end = "returned"
  /\ mutations = <<>>
  /\ blueprint_store = [blueprint |-> JsonDumps(payload)]

(* ---------------- the entry point of bda_pipeline (main.py) ------------- *)
(* main has parsed its arguments and built the managers (lines 46-71);     *)
(* the service holds no blueprint of the name, or the one of this          *)
(* configuration.                                                          *)
PipelineInit ==
  /\ BatchNotRun
  /\ main_pc = "ensure_blueprint"
  /\ ExportNotRun
  /\ AggregatorNotRun
  /\ ReadBackNotRun
  /\ JobRunnerNotRun
  /\ \E store \in StoredBlueprints \cup {NotFound} :
       component = [IdleComponent EXCEPT !.blueprint_store = store]

(* Line 74: blueprint_manager.ensure_blueprint(config). *)
MainEnsureBlueprint ==
  /\ main_pc = "ensure_blueprint"
  /\ blueprint_end = NoValue
  /\ EnsureBlueprint

(* Lines 74-75 and 81-83: with the blueprint metadata main goes on to      *)
(* start_job; the ClientError of ensure_blueprint is caught and main       *)
(* returns 1.                                                              *)
MainAfterBlueprint ==
  /\ main_pc = "ensure_blueprint"
  /\ blueprint_end # NoValue
  /\ IF blueprint_end = "returned"
     THEN /\ main_pc' = "start_job"
          /\ job_pc' = "start"
          /\ UNCHANGED component
     ELSE /\ main_pc' = "exit"
          /\ component' = [component EXCEPT !.exit_status = 1]
          /\ UNCHANGED job_pc
  /\ UNCHANGED <<config, worker, results, export, aggregator, readback,
                 job_identifier, job_status, stop_answer, stop_result>>

(* A main that builds the CSV whatever became of the job. *)
MainAfterJobIgnoresFailure ==
  /\ main_pc = "start_job"
  /\ job_pc \in {"returned", "ClientError", "RuntimeError"}
  /\ main_pc' = "build_csv"
  /\ build_pc' = "build_csv"
  /\ \E n \in 0..MaxArtifacts : listing' \in [1..n -> Artifacts]
  /\ UNCHANGED <<config, worker, results, export, aggregator, jobrunner, csv_file,
                 component>>

(* Lines 75-76 and 81-83: start_job has returned the job it saw SUCCEEDED  *)
(* and main calls build_csv on what the job left under the output prefix;  *)
(* its ClientError or RuntimeError is caught and main returns 1.           *)
MainAfterJob ==
  /\ main_pc = "start_job"
  /\ job_pc \in {"returned", "ClientError", "RuntimeError"}
  /\ IF job_pc = "returned"
     THEN /\ main_pc' = "build_csv"
          /\ build_pc' = "build_csv"
          /\ \E n \in 0..MaxArtifacts : listing' \in [1..n -> Artifacts]
          /\ UNCHANGED component
     ELSE /\ main_pc' = "exit"
          /\ component' = [component EXCEPT !.exit_status = 1]
          /\ UNCHANGED <<listing, build_pc>>
  /\ UNCHANGED <<config, worker, results, export, aggregator, jobrunner, csv_file>>

(* Lines 81-89: build_csv returned and main returns 0; its                 *)
(* JSONDecodeError, a ValueError, is caught and main returns 1.            *)
MainAfterBuild ==
  /\ main_pc = "build_csv"
  /\ build_pc \in {"returned", "JSONDecodeError"}
  /\ main_pc' = "exit"
  /\ component' = [component EXCEPT
       !.exit_status = IF build_pc = "returned" THEN 0 ELSE 1]
  /\ UNCHANGED <<config, worker, results, export, aggregator, readback, jobrunner>>

PipelineNext ==
  \/ MainEnsureBlueprint
  \/ MainAfterBlueprint
  \/ StartJob
  \/ QueryJob
  \/ SleepJob
  \/ MainAfterJob
  \/ BuildCsvFile
  \/ MainAfterBuild

PipelineSpec == PipelineInit /\ [][PipelineNext]_vars

(* C39: main runs ensure_blueprint, then start_job with its wait, then     *)
(* build_csv: the job is started only with the blueprint ensured, the CSV  *)
(* is built only after the job was seen SUCCEEDED, a step that fails       *)
(* leaves the later steps unrun and makes main return 1, and main returns  *)
(* 0 only after build_csv returned.                                        *)
C39_StepsInOrder ==
  /\ (job_pc # NoValue => blueprint_end = "returned")
  /\ (build_pc # NoValue => job_pc = "returned" /\ job_status = "SUCCEEDED")
  /\ (blueprint_end \notin {NoValue, "returned"} =>
        /\ job_pc = NoValue
        /\ build_pc = NoValue
        /\ main_pc = "exit" => exit_status = 1)
  /\ (job_pc \in {"ClientError", "RuntimeError"} =>
        /\ build_pc = NoValue
        /\ csv_file = NoFile
        /\ main_pc = "exit" => exit_status = 1)
  /\ (build_pc = "JSONDecodeError" /\ main_pc = "exit" => exit_status = 1)
  /\ (main_pc = "exit" => exit_status \in {0, 1})
  /\ (main_pc = "exit" /\ exit_status = 0 =>
        build_pc = "returned" /\ job_status = "SUCCEEDED")

(* The job was seen FAILED: main returned 1 and build_csv was not called.  *)
C39_Witness ==
  /\ main_pc = "exit"
  /\ exit_status = 1
  /\ blueprint_end = "returned"
  /\ job_status = "FAILED"
  /\ build_pc = NoValue

====
